---- MODULE Spec2Model ----
(***************************************************************************)
(* Model of gkvfigpdf's entropy-balance calculator                         *)
(* (src/src/gkvfigpdf/utils/calc_entropy_balance.py).                      *)
(*                                                                         *)
(* A table (pandas DataFrame) is a sequence of columns, each a record      *)
(* [name, vals]; a cell is a record: a float [k |-> "num", n, d] standing  *)
(* for the number n/d (lowest terms, d > 0; n = d = 0 is the float nan),   *)
(* or a text cell [k |-> "str", s].  float64 arithmetic is modelled by     *)
(* exact rational arithmetic: rounding error is not part of the model.     *)
(* The text file is a sequence of lines, each a string without its         *)
(* trailing newline.                                                       *)
(***************************************************************************)
EXTENDS Integers, Sequences, FiniteSets, TLC

\* save_entropy_balance: the table, the flag, the augmented table, the output
\* file, the row counter of the write loop, the position, the exception raised
VARIABLES df, non_uniform, result, f, i, pc, exc

\* parse_parameters: the lines of the log, the number of lines read, the
\* three local variables, and how the call ended
VARIABLES log, ln, nprocs, global_ny, calc_type, ret

\* main and gkvfigpdf: whether --dir is given, the input paths that exist,
\* the history file that is missing or unreadable, what the log holds, the
\* clock, the timestamps of the invocations so far, the position, the step
\* of the program, the parsed parameters, the list pdfs, the directories and the
\* files under the working directory, the exit codes so far, the exception
\* raised, what was printed, and the pages of the report merge_pdfs wrote
VARIABLES argv, tree, missing, loginfo, now, stamps, runpc, stepno, params, pdfs,
          dirs, files, exits, rexc, printed, merged

\* concat_files: the files of src_dir, the pattern, the destination file,
\* the matching files still to be copied, and the position
VARIABLES srcfiles, pattern, dst, pending, cpc

\* merge_pdfs: the input documents in the order of pdf_paths, the number of
\* documents read, the list pages, total, the pages added to the writer, the
\* output file, and the position
VARIABLES pdf_paths, nread, pages, total, writer, out_pdf, mpc

\* clean_directory: the file tree before the call, the file tree, the
\* argument, the entries of the directory still to be removed, the position,
\* and the exception raised
VARIABLES fsys0, fsys, dir_path, todo, clpc, clexc

entropyVars == <<df, non_uniform, result, f, i, pc, exc>>

concatVars == <<srcfiles, pattern, dst, pending, cpc>>

runVars == <<argv, tree, missing, loginfo, now, stamps, runpc, stepno, params, pdfs,
             dirs, files, exits, rexc, printed, merged>>

mergeVars == <<pdf_paths, nread, pages, total, writer, out_pdf, mpc>>

cleanVars == <<fsys0, fsys, dir_path, todo, clpc, clexc>>

parseVars == <<log, ln, nprocs, global_ny, calc_type, ret>>

vars == <<entropyVars, parseVars, runVars, concatVars, mergeVars, cleanVars>>

\* the variables save_entropy_balance leaves alone
outsideEntropy == <<parseVars, runVars, concatVars, mergeVars, cleanVars>>

\* the variables parse_parameters leaves alone
outsideParse == <<entropyVars, runVars, concatVars, mergeVars, cleanVars>>

\* the variables main and gkvfigpdf leave alone
outsideRun == <<entropyVars, parseVars, concatVars, mergeVars, cleanVars>>

\* the variables concat_files leaves alone
outsideConcat == <<entropyVars, parseVars, runVars, mergeVars, cleanVars>>

\* the variables merge_pdfs leaves alone
outsideMerge == <<entropyVars, parseVars, runVars, concatVars, cleanVars>>

\* the variables clean_directory leaves alone
outsideClean == <<entropyVars, parseVars, runVars, concatVars, mergeVars>>

(* ------------------------------ bounds --------------------------------- *)

\* the longest log parse_parameters is run on
MaxLines == 3

\* the largest number of ranks a log announces
MaxProcs == 2

\* the number of invocations from one working directory
MaxInvocations == 2

\* the largest number of files in the directory concat_files reads
MaxFiles == 3

\* the largest number of documents merge_pdfs is given
MaxPdfs == 3

\* the largest number of pages of one document
MaxPages == 2

\* largest number of rows of an input table
MaxRows == 6
\* the time grids are h * s for the strictly increasing s over 0..TMax
TMax == 6
\* largest scale h of a time grid
HMax == 2

(* --------------------------- float arithmetic -------------------------- *)

Abs(x) == IF x < 0 THEN -x ELSE x

Sgn(x) == IF x < 0 THEN -1 ELSE IF x > 0 THEN 1 ELSE 0

RECURSIVE GCD(_, _)
GCD(a, b) == IF b = 0 THEN a ELSE GCD(b, a % b)

Fl(n, d) == [k |-> "num", n |-> n, d |-> d]

Str(s) == [k |-> "str", s |-> s]

\* a cell that is neither a number nor a string (None, bytes, a list, ...)
Obj == [k |-> "obj"]

\* isinstance(v, (float, int)) and not isinstance(v, str)
IsNum(x) == x.k = "num"

\* np.nan
NaN == Fl(0, 0)

IsNaN(x) == x.k = "num" /\ x.d = 0 /\ x.n = 0

IsFinite(x) == x.k = "num" /\ x.d # 0

\* n/d in lowest terms with a positive denominator (d # 0)
Norm(n, d) ==
    LET g == GCD(Abs(n), Abs(d))
        s == IF d < 0 THEN -1 ELSE 1
    IN  Fl(s * (n \div g), s * (d \div g))

FInt(x) == Fl(x, 1)

\* the values of IEEE 754 that are not finite numbers other than zero: the
\* infinities are 1/0 and -1/0, the zeros are 0/1 and 0/-1
Inf(sign) == Fl(sign, 0)

Zero(sign) == Fl(0, sign)

IsZero(a) == a.n = 0 /\ a.d # 0

\* -1 for the values with the sign bit set, 1 for the others
SignOf(a) == IF a.n < 0 \/ (a.n = 0 /\ a.d < 0) THEN -1 ELSE 1

FNeg(a) == IF IsZero(a) THEN Zero(-a.d) ELSE Fl(-a.n, a.d)

FAdd(a, b) ==
    IF a.d = 0 \/ b.d = 0
    THEN IF IsNaN(a) \/ IsNaN(b) THEN NaN
         ELSE IF a.d = 0 /\ b.d = 0 THEN (IF a.n = b.n THEN a ELSE NaN)
         ELSE IF a.d = 0 THEN a ELSE b
    ELSE IF IsZero(a) /\ IsZero(b) THEN (IF a.d < 0 /\ b.d < 0 THEN Zero(-1) ELSE Zero(1))
    ELSE IF IsZero(a) THEN b
    ELSE IF IsZero(b) THEN a
    ELSE LET g == GCD(a.d, b.d)
         IN  Norm(a.n * (b.d \div g) + b.n * (a.d \div g), (a.d \div g) * b.d)

FSub(a, b) == FAdd(a, FNeg(b))

FMul(a, b) ==
    IF IsNaN(a) \/ IsNaN(b) THEN NaN
    ELSE IF a.d = 0 \/ b.d = 0
         THEN (IF IsZero(a) \/ IsZero(b) THEN NaN ELSE Inf(SignOf(a) * SignOf(b)))
    ELSE IF IsZero(a) \/ IsZero(b) THEN Zero(SignOf(a) * SignOf(b))
    ELSE LET g1 == GCD(Abs(a.n), b.d)
             g2 == GCD(Abs(b.n), a.d)
         IN  Norm((a.n \div g1) * (b.n \div g2), (a.d \div g2) * (b.d \div g1))

\* a / b; a division by zero is no exception in numpy: it gives an infinity,
\* and 0 / 0 gives nan
FDiv(a, b) ==
    IF IsNaN(a) \/ IsNaN(b) THEN NaN
    ELSE IF IsZero(b)
         THEN (IF IsZero(a) THEN NaN ELSE Inf(SignOf(a) * SignOf(b)))
    ELSE IF b.d = 0
         THEN (IF a.d = 0 THEN NaN ELSE Zero(SignOf(a) * SignOf(b)))
    ELSE IF a.d = 0 THEN Inf(SignOf(a) * SignOf(b))
    ELSE IF IsZero(a) THEN Zero(SignOf(a) * SignOf(b))
    ELSE FMul(a, Fl(Sgn(b.n) * b.d, Abs(b.n)))

\* a < b for two finite values
FLess(a, b) == a.n * Abs(b.d) < b.n * Abs(a.d)

FAbs(a) == Fl(Abs(a.n), Abs(a.d))

(* ------------------------------ the table ------------------------------ *)

\* the 21 positional column names, calc_entropy_balance.py:27-34
ColumnNames ==
    << "t",
       "Ss_nz", "Ss_zf", "WE_nz", "WE_zf", "WM_nz", "WM_zf",
       "RE_nz", "RE_zf", "RM_nz", "RM_zf",
       "NE_nz", "NE_zf", "NM_nz", "NM_zf",
       "Ds_nz", "Ds_zf",
       "GE", "GM", "QE", "QM" >>

\* number of rows of a table: len(df)
NRows(d) == IF Len(d) = 0 THEN 0 ELSE Len(d[1].vals)

HasColumn(d, name) == \E c \in 1..Len(d) : d[c].name = name

\* df[name].values
Values(d, name) == d[CHOOSE c \in 1..Len(d) : d[c].name = name].vals

\* df[name] = vals: replaces the column of that name, or appends a new one
SetColumn(d, name, vals) ==
    IF HasColumn(d, name)
    THEN [c \in 1..Len(d) |->
            IF d[c].name = name THEN [name |-> name, vals |-> vals] ELSE d[c]]
    ELSE Append(d, [name |-> name, vals |-> vals])

\* df.columns = names (the lengths agree)
Rename(d, names) == [c \in 1..Len(d) |-> [name |-> names[c], vals |-> d[c].vals]]

(* --------------------------- the estimators ---------------------------- *)

\* Python's range(a, b)
Range(a, b) == a..(b - 1)

\* s[j] with Python's 0-based index
At(s, j) == s[j + 1]

\* faulty variant: the loop stops one row early, range(2, n - 3)
InteriorRowsShort(n) == Range(2, n - 3)

\* the rows the estimators compute: range(2, n - 2)
InteriorRows(n) == Range(2, n - 2)

\* np.full(n, np.nan) with the rows of the loop overwritten by val[row]
FillInterior(n, val) ==
    [r \in 1..n |-> IF (r - 1) \in InteriorRows(n) THEN val[r - 1] ELSE NaN]

\* faulty variant: the gap behind row i instead of the gap ahead, dt = t[i] - t[i-1]
UniformStepBack(t, j) == FSub(At(t, j), At(t, j - 1))

\* dt = t[i+1] - t[i]
UniformStep(t, j) == FSub(At(t, j + 1), At(t, j))

\* faulty variant: the stencil with its signs reversed
UniformAtReversed(t, y, j) ==
    LET dt     == FSub(At(t, j + 1), At(t, j))
        cef    == FDiv(FInt(1), FMul(FInt(12), dt))
        y_vals == [m \in 0..4 |-> At(y, j - 2 + m)]
    IN  FMul(cef,
             FSub(FAdd(FSub(y_vals[4], FMul(FInt(8), y_vals[3])),
                       FMul(FInt(8), y_vals[1])),
                  y_vals[0]))

\* the body of uniform_derivative's loop at row j
UniformAt(t, y, j) ==
    LET dt     == UniformStep(t, j)
        cef    == FDiv(FInt(1), FMul(FInt(12), dt))
        y_vals == [m \in 0..4 |-> At(y, j - 2 + m)]
    IN  FMul(cef,
             FAdd(FSub(FAdd(FNeg(y_vals[4]), FMul(FInt(8), y_vals[3])),
                       FMul(FInt(8), y_vals[1])),
                  y_vals[0]))

uniform_derivative(t, y) ==
    LET n == Len(t)
    IN  FillInterior(n, [j \in InteriorRows(n) |-> UniformAt(t, y, j)])

\* a product of three or four factors, left to right
Mul3(a, b, c) == FMul(FMul(a, b), c)

Mul4(a, b, c, d) == FMul(FMul(FMul(a, b), c), d)

\* faulty variant: the denominator repeats (t_m2 - t_0) in place of (t_m2 - t_p1)
Cefm2Wrong(w) ==
    LET t_m2 == w[1]  t_m1 == w[2]  t_0 == w[3]  t_p1 == w[4]  t_p2 == w[5]
        num_cefm2 == Mul3(FSub(t_0, t_m1), FSub(t_0, t_p1), FSub(t_0, t_p2))
        den_cefm2 == Mul4(FSub(t_m2, t_m1), FSub(t_m2, t_0),
                          FSub(t_m2, t_0), FSub(t_m2, t_p2))
    IN  FDiv(num_cefm2, den_cefm2)

\* the five weights of non_uniform_derivative; w = <<t_m2, t_m1, t_0, t_p1, t_p2>>
Cefm2(w) ==
    LET t_m2 == w[1]  t_m1 == w[2]  t_0 == w[3]  t_p1 == w[4]  t_p2 == w[5]
        num_cefm2 == Mul3(FSub(t_0, t_m1), FSub(t_0, t_p1), FSub(t_0, t_p2))
        den_cefm2 == Mul4(FSub(t_m2, t_m1), FSub(t_m2, t_0),
                          FSub(t_m2, t_p1), FSub(t_m2, t_p2))
    IN  FDiv(num_cefm2, den_cefm2)

\* faulty variant: the numerator of the weight of t_m2 used for the weight of t_m1
Cefm1Wrong(w) ==
    LET t_m2 == w[1]  t_m1 == w[2]  t_0 == w[3]  t_p1 == w[4]  t_p2 == w[5]
        num_cefm1 == Mul3(FSub(t_0, t_m1), FSub(t_0, t_p1), FSub(t_0, t_p2))
        den_cefm1 == Mul4(FSub(t_m1, t_m2), FSub(t_m1, t_0),
                          FSub(t_m1, t_p1), FSub(t_m1, t_p2))
    IN  FDiv(num_cefm1, den_cefm1)

Cefm1(w) ==
    LET t_m2 == w[1]  t_m1 == w[2]  t_0 == w[3]  t_p1 == w[4]  t_p2 == w[5]
        num_cefm1 == Mul3(FSub(t_0, t_m2), FSub(t_0, t_p1), FSub(t_0, t_p2))
        den_cefm1 == Mul4(FSub(t_m1, t_m2), FSub(t_m1, t_0),
                          FSub(t_m1, t_p1), FSub(t_m1, t_p2))
    IN  FDiv(num_cefm1, den_cefm1)

\* faulty variant: the centre weight without its fourth term
Cefp0ThreeTerms(w) ==
    LET t_m2 == w[1]  t_m1 == w[2]  t_0 == w[3]  t_p1 == w[4]  t_p2 == w[5]
        term1 == Mul3(FSub(t_0, t_m1), FSub(t_0, t_p1), FSub(t_0, t_p2))
        term2 == Mul3(FSub(t_0, t_m2), FSub(t_0, t_p1), FSub(t_0, t_p2))
        term3 == Mul3(FSub(t_0, t_m2), FSub(t_0, t_m1), FSub(t_0, t_p2))
        num_cefp0 == FAdd(FAdd(term1, term2), term3)
        den_cefp0 == Mul4(FSub(t_0, t_m2), FSub(t_0, t_m1),
                          FSub(t_0, t_p1), FSub(t_0, t_p2))
    IN  FDiv(num_cefp0, den_cefp0)

Cefp0(w) ==
    LET t_m2 == w[1]  t_m1 == w[2]  t_0 == w[3]  t_p1 == w[4]  t_p2 == w[5]
        term1 == Mul3(FSub(t_0, t_m1), FSub(t_0, t_p1), FSub(t_0, t_p2))
        term2 == Mul3(FSub(t_0, t_m2), FSub(t_0, t_p1), FSub(t_0, t_p2))
        term3 == Mul3(FSub(t_0, t_m2), FSub(t_0, t_m1), FSub(t_0, t_p2))
        term4 == Mul3(FSub(t_0, t_m2), FSub(t_0, t_m1), FSub(t_0, t_p1))
        num_cefp0 == FAdd(FAdd(FAdd(term1, term2), term3), term4)
        den_cefp0 == Mul4(FSub(t_0, t_m2), FSub(t_0, t_m1),
                          FSub(t_0, t_p1), FSub(t_0, t_p2))
    IN  FDiv(num_cefp0, den_cefp0)

\* faulty variant: the numerator takes (t_0 - t_p1) in place of (t_0 - t_p2)
Cefp1Wrong(w) ==
    LET t_m2 == w[1]  t_m1 == w[2]  t_0 == w[3]  t_p1 == w[4]  t_p2 == w[5]
        num_cefp1 == Mul3(FSub(t_0, t_m2), FSub(t_0, t_m1), FSub(t_0, t_p1))
        den_cefp1 == Mul4(FSub(t_p1, t_m2), FSub(t_p1, t_m1),
                          FSub(t_p1, t_0), FSub(t_p1, t_p2))
    IN  FDiv(num_cefp1, den_cefp1)

Cefp1(w) ==
    LET t_m2 == w[1]  t_m1 == w[2]  t_0 == w[3]  t_p1 == w[4]  t_p2 == w[5]
        num_cefp1 == Mul3(FSub(t_0, t_m2), FSub(t_0, t_m1), FSub(t_0, t_p2))
        den_cefp1 == Mul4(FSub(t_p1, t_m2), FSub(t_p1, t_m1),
                          FSub(t_p1, t_0), FSub(t_p1, t_p2))
    IN  FDiv(num_cefp1, den_cefp1)

Cefp2(w) ==
    LET t_m2 == w[1]  t_m1 == w[2]  t_0 == w[3]  t_p1 == w[4]  t_p2 == w[5]
        num_cefp2 == Mul3(FSub(t_0, t_m2), FSub(t_0, t_m1), FSub(t_0, t_p1))
        den_cefp2 == Mul4(FSub(t_p2, t_m2), FSub(t_p2, t_m1),
                          FSub(t_p2, t_0), FSub(t_p2, t_p1))
    IN  FDiv(num_cefp2, den_cefp2)

\* t[ir-2:ir+3]
Window(t, ir) == [m \in 1..5 |-> At(t, ir - 3 + m)]

\* the body of non_uniform_derivative's loop at row ir
NonUniformAt(t, y, ir) ==
    LET w == Window(t, ir)
    IN  FAdd(FAdd(FAdd(FAdd(FMul(Cefm2(w), At(y, ir - 2)),
                            FMul(Cefm1(w), At(y, ir - 1))),
                       FMul(Cefp0(w), At(y, ir))),
                  FMul(Cefp1(w), At(y, ir + 1))),
             FMul(Cefp2(w), At(y, ir + 2)))

non_uniform_derivative(t, y) ==
    LET n == Len(t)
    IN  FillInterior(n, [ir \in InteriorRows(n) |-> NonUniformAt(t, y, ir)])

\* faulty variant: the first assignment writes dSsdt_zf, which the second overwrites
DerivativeColumnsDup ==
    << <<"dSsdt_zf", "Ss_nz">>, <<"dSsdt_zf", "Ss_zf">>,
       <<"dWEdt_nz", "WE_nz">>, <<"dWEdt_zf", "WE_zf">>,
       <<"dWMdt_nz", "WM_nz">>, <<"dWMdt_zf", "WM_zf">> >>

\* the six assignments of each branch: <<new column, source column>>
DerivativeColumns ==
    << <<"dSsdt_nz", "Ss_nz">>, <<"dSsdt_zf", "Ss_zf">>,
       <<"dWEdt_nz", "WE_nz">>, <<"dWEdt_zf", "WE_zf">>,
       <<"dWMdt_nz", "WM_nz">>, <<"dWMdt_zf", "WM_zf">> >>

Derivative(nu, t, y) ==
    IF nu THEN non_uniform_derivative(t, y) ELSE uniform_derivative(t, y)

RECURSIVE AssignDerivatives(_, _, _)
AssignDerivatives(d, nu, k) ==
    IF k > Len(DerivativeColumns) THEN d
    ELSE AssignDerivatives(
             SetColumn(d, DerivativeColumns[k][1],
                       Derivative(nu, Values(d, "t"),
                                  Values(d, DerivativeColumns[k][2]))),
             nu, k + 1)

_calc_entropy_balance(d, nu) ==
    AssignDerivatives(Rename(d, ColumnNames), nu, 1)

\* df.columns = [...] accepts the table only when it has as many columns as names
ColumnsFit(d) == Len(d) = Len(ColumnNames)

\* the operands uniform_derivative reads at row j: t[i], t[i+1] and the four
\* outer entries of y_vals (y_vals[2] is never read); arithmetic between a
\* float and a string or object raises TypeError
UniformRaises(t, y) ==
    \E j \in InteriorRows(Len(t)) :
        \/ ~IsNum(At(t, j + 1))
        \/ ~IsNum(At(t, j))
        \/ \E m \in {0, 1, 3, 4} : ~IsNum(At(y, j - 2 + m))

\* the operands non_uniform_derivative reads at row ir: the five times and
\* the five values of the window
NonUniformRaises(t, y) ==
    \E ir \in InteriorRows(Len(t)) :
        \E m \in 0..4 : ~IsNum(At(t, ir - 2 + m)) \/ ~IsNum(At(y, ir - 2 + m))

DerivativeRaises(nu, t, y) ==
    IF nu THEN NonUniformRaises(t, y) ELSE UniformRaises(t, y)

\* the exception _calc_entropy_balance ends with, "none" when it returns
CalcException(d, nu) ==
    IF ~ColumnsFit(d) THEN "ValueError"
    ELSE IF \E k \in 1..Len(DerivativeColumns) :
                DerivativeRaises(nu, Values(Rename(d, ColumnNames), "t"),
                                 Values(Rename(d, ColumnNames), DerivativeColumns[k][2]))
         THEN "TypeError"
         ELSE "none"

\* the table the body of _calc_entropy_balance holds when it raises: as
\* passed when the labels do not fit, else relabelled and with the columns
\* assigned before the derivative that raises
RECURSIVE AssignUntilRaise(_, _, _)
AssignUntilRaise(d, nu, k) ==
    IF k > Len(DerivativeColumns) THEN d
    ELSE IF DerivativeRaises(nu, Values(d, "t"), Values(d, DerivativeColumns[k][2]))
         THEN d
         ELSE AssignUntilRaise(
                  SetColumn(d, DerivativeColumns[k][1],
                            Derivative(nu, Values(d, "t"),
                                       Values(d, DerivativeColumns[k][2]))),
                  nu, k + 1)

LocalAtRaise(d, nu) ==
    IF ~ColumnsFit(d) THEN d ELSE AssignUntilRaise(Rename(d, ColumnNames), nu, 1)

\* faulty variant: the body relabels and extends the table it was passed
CallerTableNoCopy(d, local) == local

\* the caller's table once the body has made `local` of its own table:
\* df = df.copy() binds the local name to a new table before anything is
\* assigned, so that the table the caller passed is as it was
CallerTable(d, local) == d

(* ---------------------------- the text file ---------------------------- *)

\* the field width of f'{col:>17s}' and f'{v:17.7e}'
FieldWidth == 17
\* the digits after the decimal point of f'{v:17.7e}'
Precision == 7

RECURSIVE Pow10(_)
Pow10(k) == IF k = 0 THEN 1 ELSE 10 * Pow10(k - 1)

RECURSIVE Spaces(_)
Spaces(k) == IF k <= 0 THEN "" ELSE " " \o Spaces(k - 1)

\* f'{s:>17s}': right-justified, padded with spaces, never truncated
RJust(s, w) == Spaces(w - Len(s)) \o s

DigitChar(k) == SubSeq("0123456789", k + 1, k + 1)

\* the k low decimal digits of m, with leading zeros
RECURSIVE DigitsStr(_, _)
DigitsStr(m, k) ==
    IF k = 0 THEN "" ELSE DigitsStr(m \div 10, k - 1) \o DigitChar(m % 10)

\* the decimal digits of m >= 0, without leading zeros
RECURSIVE Decimal(_)
Decimal(m) == IF m < 10 THEN DigitChar(m) ELSE Decimal(m \div 10) \o DigitChar(m % 10)

\* <<a', d', e>> with a/d = (a'/d') * 10^e and d' <= a' < 10 * d'   (a, d > 0)
RECURSIVE Scale(_, _, _)
Scale(a, d, e) ==
    IF a >= 10 * d THEN Scale(a, 10 * d, e + 1)
    ELSE IF a < d THEN Scale(10 * a, d, e - 1)
    ELSE <<a, d, e>>

\* long division: k more digits of r/d (r < d) appended to acc; <<digits, remainder>>
RECURSIVE LongDiv(_, _, _, _)
LongDiv(r, d, k, acc) ==
    IF k = 0 THEN <<acc, r>>
    ELSE LongDiv((r * 10) % d, d, k - 1, acc * 10 + ((r * 10) \div d))

\* the exponent part of the e format: sign and at least two digits
ExpStr(e) ==
    "e" \o (IF e < 0 THEN "-" ELSE "+")
        \o (IF Abs(e) < 10 THEN "0" \o DigitChar(Abs(e)) ELSE Decimal(Abs(e)))

\* <<mantissa as an integer of Precision + 1 digits, exponent>> of a/d > 0,
\* rounded to nearest, ties to even
SciDigits(a, d) ==
    LET sc   == Scale(a, d, 0)
        ld   == LongDiv(sc[1] % sc[2], sc[2], Precision, sc[1] \div sc[2])
        m    == ld[1]
        r    == ld[2]
        up   == 2 * r > sc[2] \/ (2 * r = sc[2] /\ m % 2 = 1)
        m1   == IF up THEN m + 1 ELSE m
    IN  IF m1 = Pow10(Precision + 1) THEN <<Pow10(Precision), sc[3] + 1>>
        ELSE <<m1, sc[3]>>

\* faulty variant: a nan is printed with the spelling of the sentinel token
FmtENaNToken(v) ==
    IF v.d = 0 THEN (IF v.n = 0 THEN "NaN" ELSE IF v.n < 0 THEN "-inf" ELSE "inf")
    ELSE IF v.n = 0
         THEN (IF v.d < 0 THEN "-" ELSE "") \o "0." \o DigitsStr(0, Precision) \o ExpStr(0)
    ELSE LET sd == SciDigits(Abs(v.n), v.d)
         IN  (IF v.n < 0 THEN "-" ELSE "")
             \o DigitChar(sd[1] \div Pow10(Precision)) \o "."
             \o DigitsStr(sd[1] % Pow10(Precision), Precision)
             \o ExpStr(sd[2])

\* format(v, '.7e') of a float
FmtE(v) ==
    IF v.d = 0 THEN (IF v.n = 0 THEN "nan" ELSE IF v.n < 0 THEN "-inf" ELSE "inf")
    ELSE IF v.n = 0
         THEN (IF v.d < 0 THEN "-" ELSE "") \o "0." \o DigitsStr(0, Precision) \o ExpStr(0)
    ELSE LET sd == SciDigits(Abs(v.n), v.d)
         IN  (IF v.n < 0 THEN "-" ELSE "")
             \o DigitChar(sd[1] \div Pow10(Precision)) \o "."
             \o DigitsStr(sd[1] % Pow10(Precision), Precision)
             \o ExpStr(sd[2])

\* one field of a data row: f'{v:17.7e}' for a float, f'{v:>17s}' for a string
FormatValue(v) ==
    IF v.k = "num" THEN RJust(FmtE(v), FieldWidth) ELSE RJust(v.s, FieldWidth)

\* ''.join(fields)
RECURSIVE Join(_)
Join(fields) == IF fields = <<>> THEN "" ELSE Head(fields) \o Join(Tail(fields))

header_cols ==
    << "#            time", "dSsdt_nz", "dSsdt_zf",
       "dWEdt_nz", "dWEdt_zf", "dWMdt_nz", "dWMdt_zf",
       "RE_nz", "RE_zf", "RM_nz", "RM_zf",
       "NE_nz", "NE_zf", "NM_nz", "NM_zf",
       "Ds_nz", "Ds_zf", "GE", "GM", "QE", "QM" >>

HeaderLine == Join([c \in 1..Len(header_cols) |-> RJust(header_cols[c], FieldWidth)])

\* faulty variant: GE and GM written in each other's place
TailColumnsSwapped ==
    << "RE_nz", "RE_zf", "RM_nz", "RM_zf",
       "NE_nz", "NE_zf", "NM_nz", "NM_zf",
       "Ds_nz", "Ds_zf", "GM", "GE", "QE", "QM" >>

\* the columns written after t and the six derivative fields
TailColumns ==
    << "RE_nz", "RE_zf", "RM_nz", "RM_zf",
       "NE_nz", "NE_zf", "NM_nz", "NM_zf",
       "Ds_nz", "Ds_zf", "GE", "GM", "QE", "QM" >>

DerivativeNames ==
    << "dSsdt_nz", "dSsdt_zf", "dWEdt_nz", "dWEdt_zf", "dWMdt_nz", "dWMdt_zf" >>

\* row = df.iloc[j]; row[name]
Cell(d, j, name) == At(Values(d, name), j)

\* faulty variant: only the last row counts as a trailing sentinel row
IsSentinelRowOff(d, j) == j < 2 \/ j > NRows(d) - 2

\* the rows written with the NaN token: i < 2 or i >= len(df) - 2
IsSentinelRow(d, j) == j < 2 \/ j >= NRows(d) - 2

\* the list `values` of row j
RowValues(d, j) ==
    IF IsSentinelRow(d, j)
    THEN <<Cell(d, j, "t")>>
         \o [c \in 1..6 |-> Str("NaN")]
         \o [c \in 1..Len(TailColumns) |-> Cell(d, j, TailColumns[c])]
    ELSE <<Cell(d, j, "t")>>
         \o [c \in 1..Len(DerivativeNames) |-> Cell(d, j, DerivativeNames[c])]
         \o [c \in 1..Len(TailColumns) |-> Cell(d, j, TailColumns[c])]

RowLine(d, j) ==
    LET values == RowValues(d, j)
    IN  Join([c \in 1..Len(values) |-> FormatValue(values[c])])

\* f'{v:>17s}' raises TypeError for a value that is neither a number nor a string
RowRaises(d, j) ==
    \E c \in 1..Len(RowValues(d, j)) : RowValues(d, j)[c].k = "obj"

\* the file on disk
AbsentFile == [exists |-> FALSE, lines |-> <<>>]

\* faulty variant: the file is opened for writing before the table is calculated
OpenedBeforeCalc(file) == [exists |-> TRUE, lines |-> <<>>]

\* save_entropy_balance calculates first and opens the file afterwards: the
\* file is as it was when _calc_entropy_balance raises
FileAfterFailedCalc(file) == file

\* concat_files is not running
\* clean_directory is not running
CleanIdle ==
    /\ fsys0 = <<>>
    /\ fsys = <<>>
    /\ dir_path = <<>>
    /\ todo = {}
    /\ clpc = "idle"
    /\ clexc = "none"

\* merge_pdfs is not running
MergeIdle ==
    /\ pdf_paths = <<>>
    /\ nread = 0
    /\ pages = <<>>
    /\ total = 0
    /\ writer = <<>>
    /\ out_pdf = <<>>
    /\ mpc = "idle"

ConcatIdle ==
    /\ srcfiles = <<>>
    /\ pattern = ""
    /\ dst = AbsentFile
    /\ pending = <<>>
    /\ cpc = "idle"

\* main is not running
RunIdle ==
    /\ argv = FALSE
    /\ tree = {}
    /\ missing = "none"
    /\ loginfo = [parse |-> "ok", nprocs |-> 1, calc_type |-> "nonlinear", long |-> TRUE, pages |-> 1]
    /\ now = 1
    /\ stamps = <<>>
    /\ runpc = "idle"
    /\ stepno = 0
    /\ params = [nprocs |-> 0, calc_type |-> ""]
    /\ pdfs = <<>>
    /\ dirs = {}
    /\ files = {}
    /\ exits = <<>>
    /\ rexc = "none"
    /\ printed = <<>>
    /\ merged = <<>>

\* save_entropy_balance is not running
EntropyIdle ==
    /\ df = <<>>
    /\ non_uniform = TRUE
    /\ result = <<>>
    /\ f = AbsentFile
    /\ i = 0
    /\ pc = "idle"
    /\ exc = "none"

\* the elements of a set of integers in increasing order
RECURSIVE SortedSeq(_)
SortedSeq(S) ==
    IF S = {} THEN <<>>
    ELSE LET m == CHOOSE x \in S : \A y \in S : x <= y
         IN  <<m>> \o SortedSeq(S \ {m})

IsDigits(s) ==
    /\ Len(s) >= 1
    /\ \A p \in 1..Len(s) :
          SubSeq(s, p, p) \in {"0", "1", "2", "3", "4", "5", "6", "7", "8", "9"}

(* ------------------------ reading the file back ----------------------- *)

Char(s, p) == SubSeq(s, p, p)

\* the part of a line in front of its first comment character '#'
BeforeComment(line) ==
    LET marks == {p \in 1..Len(line) : Char(line, p) = "#"}
    IN  IF marks = {} THEN line
        ELSE SubSeq(line, 1, (CHOOSE p \in marks : \A q \in marks : p <= q) - 1)

\* s.split(): the maximal runs of characters that are not blanks
Split(s) ==
    LET starts == SortedSeq({p \in 1..Len(s) :
                      Char(s, p) # " " /\ (p = 1 \/ Char(s, p - 1) = " ")})
        ends   == SortedSeq({p \in 1..Len(s) :
                      Char(s, p) # " " /\ (p = Len(s) \/ Char(s, p + 1) = " ")})
    IN  [k \in 1..Len(starts) |-> SubSeq(s, starts[k], ends[k])]

Tokens(line) == Split(BeforeComment(line))

DigitOf(ch) == CHOOSE k \in 0..9 : DigitChar(k) = ch

\* the number a string of digits writes
RECURSIVE DigitsVal(_, _)
DigitsVal(s, acc) ==
    IF s = "" THEN acc ELSE DigitsVal(Tail(s), 10 * acc + DigitOf(Head(<<Char(s, 1)>>)))

\* the position of the character ch in s, 0 when it does not occur
RECURSIVE Find(_, _, _)
Find(s, ch, p) ==
    IF p > Len(s) THEN 0 ELSE IF Char(s, p) = ch THEN p ELSE Find(s, ch, p + 1)

\* [sign][digits][.digits][e[sign]digits], at least one mantissa digit
IsDecimalToken(tok) ==
    LET u    == IF Len(tok) > 0 /\ Char(tok, 1) \in {"-", "+"} THEN Tail(tok) ELSE tok
        ep   == Find(u, "e", 1)
        man  == IF ep = 0 THEN u ELSE SubSeq(u, 1, ep - 1)
        ex   == IF ep = 0 THEN "" ELSE SubSeq(u, ep + 1, Len(u))
        exd  == IF Len(ex) > 0 /\ Char(ex, 1) \in {"-", "+"} THEN Tail(ex) ELSE ex
        dp   == Find(man, ".", 1)
        ip   == IF dp = 0 THEN man ELSE SubSeq(man, 1, dp - 1)
        fp   == IF dp = 0 THEN "" ELSE SubSeq(man, dp + 1, Len(man))
    IN  /\ Len(ip) + Len(fp) >= 1
        /\ ip = "" \/ IsDigits(ip)
        /\ fp = "" \/ IsDigits(fp)
        /\ ep = 0 \/ IsDigits(exd)

\* float(tok) of a decimal token, kept exact: sign * m * 10^p
Dec(neg, m, p) == [k |-> "dec", neg |-> neg, m |-> m, p |-> p]

DecimalValue(tok) ==
    LET neg  == Len(tok) > 0 /\ Char(tok, 1) = "-"
        u    == IF Len(tok) > 0 /\ Char(tok, 1) \in {"-", "+"} THEN Tail(tok) ELSE tok
        ep   == Find(u, "e", 1)
        man  == IF ep = 0 THEN u ELSE SubSeq(u, 1, ep - 1)
        ex   == IF ep = 0 THEN "" ELSE SubSeq(u, ep + 1, Len(u))
        exn  == Len(ex) > 0 /\ Char(ex, 1) = "-"
        exd  == IF Len(ex) > 0 /\ Char(ex, 1) \in {"-", "+"} THEN Tail(ex) ELSE ex
        dp   == Find(man, ".", 1)
        ip   == IF dp = 0 THEN man ELSE SubSeq(man, 1, dp - 1)
        fp   == IF dp = 0 THEN "" ELSE SubSeq(man, dp + 1, Len(man))
        e    == IF exn THEN -DigitsVal(exd, 0) ELSE DigitsVal(exd, 0)
    IN  Dec(neg, DigitsVal(ip \o fp, 0), e - Len(fp))

\* float(tok): nan for the tokens NaN and nan, the decimal value of a decimal
\* token, and ValueError for any other text
ParseFloat(tok) ==
    IF tok \in {"NaN", "nan"} THEN [k |-> "nan"]
    ELSE IF IsDecimalToken(tok) THEN DecimalValue(tok)
    ELSE [k |-> "ValueError"]

\* np.loadtxt(path): comment text dropped, empty lines skipped, every token
\* converted with float; with the default ndmin=0 a file of one data line
\* comes back as a one-dimensional array of its fields, and a file without
\* data lines as an empty one-dimensional array
loadtxt(lines) ==
    LET data == SelectSeq([l \in 1..Len(lines) |-> Tokens(lines[l])],
                          LAMBDA toks : toks # <<>>)
        rows == [r \in 1..Len(data) |->
                   [c \in 1..Len(data[r]) |-> ParseFloat(data[r][c])]]
    IN  IF Len(rows) = 0 THEN [ndim |-> 1, a |-> <<>>]
        ELSE IF Len(rows) = 1 THEN [ndim |-> 1, a |-> rows[1]]
        ELSE [ndim |-> 2, a |-> rows]

(* --------------------------- parse_parameters -------------------------- *)

\* the word w stands in s at position p
StartsAt(s, p, w) == p >= 1 /\ p + Len(w) - 1 <= Len(s) /\ SubSeq(s, p, p + Len(w) - 1) = w

\* w in s
Contains(s, w) == \E p \in 1..Len(s) : StartsAt(s, p, w)

\* \s*: the first position from p on that holds no blank
RECURSIVE SkipSpaces(_, _)
SkipSpaces(s, p) ==
    IF p <= Len(s) /\ Char(s, p) = " " THEN SkipSpaces(s, p + 1) ELSE p

\* the words of lits in turn from p on, each after \s*: the position behind
\* the last one, 0 when they do not match
RECURSIVE Literals(_, _, _)
Literals(s, p, lits) ==
    IF lits = <<>> THEN p
    ELSE LET q == IF p = 0 THEN 0 ELSE SkipSpaces(s, p)
         IN  IF p # 0 /\ StartsAt(s, q, Head(lits))
             THEN Literals(s, q + Len(Head(lits)), Tail(lits))
             ELSE 0

WordChars == "abcdefghijklmnopqrstuvwxyzABCDEFGHIJKLMNOPQRSTUVWXYZ0123456789_"

\* the longest run from p on of characters of the class cls, "" when none
RECURSIVE RunOf(_, _, _)
RunOf(s, p, cls) ==
    IF p >= 1 /\ p <= Len(s) /\ Find(cls, Char(s, p), 1) > 0
    THEN Char(s, p) \o RunOf(s, p + 1, cls)
    ELSE ""

\* the position behind <words of lits, each after \s*> \s* <one of seps>
\* \s* when that stands at p, 0 when it does not
AfterPrefix(s, p, lits, seps) ==
    LET q == Literals(s, p, lits)
        r == IF q = 0 THEN 0 ELSE SkipSpaces(s, q)
    IN  IF q # 0 /\ StartsAt(s, p, Head(lits)) /\ \E w \in seps : StartsAt(s, r, w)
        THEN SkipSpaces(s, r + 1)
        ELSE 0

\* re.search of <prefix> (<class>+): group 1 of the leftmost match, "" when
\* the line has no match; the leading #?\s* of the patterns is optional and
\* changes neither whether there is a match nor its group
SearchGroup(s, lits, seps, cls) ==
    LET hits == {p \in 1..Len(s) :
                   AfterPrefix(s, p, lits, seps) # 0
                   /\ RunOf(s, AfterPrefix(s, p, lits, seps), cls) # ""}
    IN  IF hits = {} THEN ""
        ELSE RunOf(s, AfterPrefix(s, CHOOSE h \in hits : \A g \in hits : h <= g,
                                  lits, seps), cls)

\* r'#?\s*nprocs\s*,\s*rank\s*=\s*(\d+)'
NprocsGroup(line) == SearchGroup(line, <<"nprocs", ",", "rank">>, {"="}, "0123456789")

\* r'#?\s*global_ny\s*=\s*(\d+)'
GlobalNyGroup(line) == SearchGroup(line, <<"global_ny">>, {"="}, "0123456789")

\* r'#?\s*Type of calc\.\s*[:=]\s*(\w+)'
CalcTypeGroup(line) == SearchGroup(line, <<"Type of calc.">>, {":", "="}, WordChars)

\* None for the two integers and for the string: no match ever yields them
NoneInt == -1

NoneStr == ""

\* parse_parameters is not running
ParseIdle ==
    /\ log = <<>>
    /\ ln = 0
    /\ nprocs = NoneInt
    /\ global_ny = NoneInt
    /\ calc_type = NoneStr
    /\ ret = "idle"

\* which branch of the if / elif / elif chain a line takes
InNprocsBranch(line) == Contains(line, "nprocs") /\ Contains(line, "rank")

InGlobalNyBranch(line) == ~InNprocsBranch(line) /\ Contains(line, "global_ny")

InCalcTypeBranch(line) ==
    ~InNprocsBranch(line) /\ ~Contains(line, "global_ny") /\ Contains(line, "Type of calc")

\* the lines a log is made of
LogLines ==
    { "# nprocs, rank =   2   0",
      "# global_ny = 16",
      "# Type of calc. : lin_freq",
      "# Type of calc. = nonlinear",
      "# nprocs and rank unknown",
      "# nprocs, rank = 1 global_ny = 8",
      "# Type of calculation, global_ny: 3",
      "time = 0" }

RECURSIVE SeqsUpTo(_, _)
SeqsUpTo(S, k) ==
    IF k = 0 THEN {<<>>}
    ELSE LET shorter == SeqsUpTo(S, k - 1)
         IN  shorter \cup {Append(q, x) : q \in {r \in shorter : Len(r) = k - 1}, x \in S}

InitParse ==
    /\ log \in SeqsUpTo(LogLines, MaxLines)
    /\ ln = 0
    /\ nprocs = NoneInt
    /\ global_ny = NoneInt
    /\ calc_type = NoneStr
    /\ ret = "running"
    /\ EntropyIdle
    /\ RunIdle
    /\ ConcatIdle
    /\ MergeIdle
    /\ CleanIdle

\* one pass of the loop `for line in f`
ScanLine ==
    /\ ret = "running"
    /\ ln < Len(log)
    /\ ln' = ln + 1
    /\ LET line == log[ln + 1]
       IN  /\ nprocs' = IF InNprocsBranch(line) /\ NprocsGroup(line) # ""
                        THEN DigitsVal(NprocsGroup(line), 0) ELSE nprocs
           /\ global_ny' = IF InGlobalNyBranch(line) /\ GlobalNyGroup(line) # ""
                           THEN DigitsVal(GlobalNyGroup(line), 0) ELSE global_ny
           /\ calc_type' = IF InCalcTypeBranch(line) /\ CalcTypeGroup(line) # ""
                           THEN CalcTypeGroup(line) ELSE calc_type
    /\ UNCHANGED <<log, ret, outsideParse>>

\* nprocs is None or global_ny is None or calc_type is None
SomethingMissing == nprocs = NoneInt \/ global_ny = NoneInt \/ calc_type = NoneStr

\* end of file with one of the three still None: raise ValueError
ParseRaise ==
    /\ ret = "running"
    /\ ln = Len(log)
    /\ SomethingMissing
    /\ ret' = "ValueError"
    /\ UNCHANGED <<log, ln, nprocs, global_ny, calc_type, outsideParse>>

\* end of file with the three set: return nprocs, global_ny, calc_type
ParseReturn ==
    /\ ret = "running"
    /\ ln = Len(log)
    /\ ~SomethingMissing
    /\ ret' = "returned"
    /\ UNCHANGED <<log, ln, nprocs, global_ny, calc_type, outsideParse>>

NextParse == ScanLine \/ ParseRaise \/ ParseReturn

SpecParse == InitParse /\ [][NextParse]_vars

(* ------------------------------- merge_pdfs ---------------------------- *)

\* a page of a document: the document it comes from, its number there, and
\* the texts overlaid on it so far
Page(name, no) == [doc |-> name, no |-> no, marks |-> <<>>]

\* reader.pages of a document of n pages
PdfReader(name, n) == [no \in 1..n |-> Page(name, no)]

\* faulty variant: the total comes first
PageLabelTotalFirst(no, all) == Decimal(all) \o " / " \o Decimal(no)

\* f'{i} / {total}'
PageLabel(no, all) == Decimal(no) \o " / " \o Decimal(all)

\* page.merge_page(overlay): the text is drawn over the page
merge_page(pg, text) == [pg EXCEPT !.marks = Append(@, text)]

\* lines 124-127: pages.extend(reader.pages) for every path in turn
RECURSIVE ReadPages(_)
ReadPages(docs) ==
    IF docs = <<>> THEN <<>> ELSE Head(docs) \o ReadPages(Tail(docs))

\* lines 129-136: every page of the list is stamped with its place in the
\* list and the length of the list, then added to the writer
StampPages(ps) ==
    [no \in 1..Len(ps) |-> merge_page(ps[no], PageLabel(no, Len(ps)))]

\* merge_pdfs(pdf_paths, out_pdf): the pages written to out_pdf
merge_pdfs(docs) == StampPages(ReadPages(docs))

\* the documents merge_pdfs is given: document number d of n pages
InputPdfs ==
    UNION { [1..k -> 0..MaxPages] : k \in 0..MaxPdfs }

InitMerge ==
    /\ \E counts \in InputPdfs :
          pdf_paths = [d \in 1..Len(counts) |-> PdfReader(Decimal(d), counts[d])]
    /\ nread = 0
    /\ pages = <<>>
    /\ total = 0
    /\ writer = <<>>
    /\ out_pdf = <<>>
    /\ mpc = "reading"
    /\ EntropyIdle
    /\ ParseIdle
    /\ RunIdle
    /\ ConcatIdle
    /\ CleanIdle

\* lines 125-127: one pass of the loop `for path in pdf_paths`
MergeRead ==
    /\ mpc = "reading"
    /\ nread < Len(pdf_paths)
    /\ pages' = pages \o pdf_paths[nread + 1]
    /\ nread' = nread + 1
    /\ UNCHANGED <<pdf_paths, total, writer, out_pdf, mpc, outsideMerge>>

\* line 129: total = len(pages)
MergeCount ==
    /\ mpc = "reading"
    /\ nread = Len(pdf_paths)
    /\ total' = Len(pages)
    /\ mpc' = "stamping"
    /\ UNCHANGED <<pdf_paths, nread, pages, writer, out_pdf, outsideMerge>>

\* lines 132-136: one pass of the loop `for i, page in enumerate(pages, start=1)`
MergeStamp ==
    /\ mpc = "stamping"
    /\ Len(writer) < Len(pages)
    /\ writer' = Append(writer, merge_page(pages[Len(writer) + 1],
                                            PageLabel(Len(writer) + 1, total)))
    /\ UNCHANGED <<pdf_paths, nread, pages, total, out_pdf, mpc, outsideMerge>>

\* lines 139-140: writer.write(f)
MergeWrite ==
    /\ mpc = "stamping"
    /\ Len(writer) = Len(pages)
    /\ out_pdf' = writer
    /\ mpc' = "done"
    /\ UNCHANGED <<pdf_paths, nread, pages, total, writer, outsideMerge>>

NextMerge == MergeRead \/ MergeCount \/ MergeStamp \/ MergeWrite

SpecMerge == InitMerge /\ [][NextMerge]_vars

(* --------------------------- main and gkvfigpdf ------------------------ *)

\* the paths gkvfigpdf validates, in the order of its four tests
RequiredPaths == <<"dir", "hst", "log", "namelist">>

\* faulty variant: the log file is tested before the hst directory
FirstMissingLogFirst(t) ==
    IF "dir" \notin t THEN "dir"
    ELSE IF "log" \notin t THEN "log"
    ELSE IF "hst" \notin t THEN "hst"
    ELSE IF "namelist" \notin t THEN "namelist"
    ELSE "none"

\* the path the FileNotFoundError of lines 163-170 names, "none" when the
\* four tests pass
FirstMissing(t) ==
    IF "dir" \notin t THEN "dir"
    ELSE IF "hst" \notin t THEN "hst"
    ELSE IF "log" \notin t THEN "log"
    ELSE IF "namelist" \notin t THEN "namelist"
    ELSE "none"

\* the kinds of history file under hst/ the pipeline reads
HistoryKinds ==
    {"mtr", "mtf", "dtc", "eng", "men", "wes", "wem",
     "ges", "gem", "qes", "qem", "bln", "frq", "dsp"}

\* a file under the working directory: the timestamp of its figpdf_ directory,
\* the subdirectory ("" for the directory itself), its name, whether it holds
\* data, and the invocation that wrote it
File(root, sub, name, size, by) ==
    [root |-> root, sub |-> sub, name |-> name, size |-> size, by |-> by]

\* opening root/sub/name for writing replaces what was there
WriteFile(fs, root, sub, name, size, by) ==
    {x \in fs : ~(x.root = root /\ x.sub = sub /\ x.name = name)}
    \cup {File(root, sub, name, size, by)}

\* root/sub/name exists and is not empty
Filled(fs, root, sub, name) ==
    \E x \in fs : x.root = root /\ x.sub = sub /\ x.name = name /\ x.size = "filled"

\* clean_directory(root/sub): an existing directory loses everything in it,
\* a missing one is created with its parents
clean_directory(ds, fs, root, sub) ==
    IF <<root, sub>> \in ds
    THEN [dirs |-> ds, files |-> {x \in fs : ~(x.root = root /\ x.sub = sub)}]
    ELSE [dirs |-> ds \cup {<<root, "">>, <<root, sub>>}, files |-> fs]

Step(op, name) == [op |-> op, name |-> name]

\* faulty variant: the entropy balance of a rank is computed before its
\* files are concatenated
RankStepsEntropyFirst(r) ==
    <<Step("entropy", Decimal(r))>>
    \o [c \in 1..5 |-> Step("concat", <<"ges", "gem", "qes", "qem", "bln">>[c] \o "." \o Decimal(r))]

\* concat_proc_filenames for rank r, then read_csv and save_entropy_balance
RankSteps(r) ==
    [c \in 1..5 |-> Step("concat", <<"ges", "gem", "qes", "qem", "bln">>[c] \o "." \o Decimal(r))]
    \o <<Step("entropy", Decimal(r))>>

RECURSIVE AllRankSteps(_, _)
AllRankSteps(r, n) == IF r >= n THEN <<>> ELSE RankSteps(r) \o AllRankSteps(r + 1, n)

\* faulty variant: the flux pages in descending order of rank
FluxFragmentsDescending(r, n) ==
    [q \in 1..(n - r) |-> Step("fragment", "plot_flux." \o Decimal(n - q))]

RECURSIVE FluxFragments(_, _)
FluxFragments(r, n) ==
    IF r >= n THEN <<>>
    ELSE <<Step("fragment", "plot_flux." \o Decimal(r))>> \o FluxFragments(r + 1, n)

\* the statements of gkvfigpdf from line 189 on, loops unrolled
Program(p) ==
    <<Step("copy", "mtr"), Step("copy", "mtf")>>
    \o [c \in 1..5 |-> Step("concat", <<"dtc", "eng", "men", "wes", "wem">>[c])]
    \o AllRankSteps(0, p.nprocs)
    \o (IF p.calc_type = "lin_freq" THEN <<Step("concat", "frq"), Step("dsp", "dsp")>> ELSE <<>>)
    \o <<Step("fragment", "text_section"), Step("fragment", "plot_elt"),
         Step("fragment", "plot_mtr"), Step("fragment", "plot_mtf")>>
    \o (IF p.calc_type = "lin_freq" THEN <<Step("fragment", "plot_freq")>> ELSE <<>>)
    \o <<Step("fragment", "plot_time_series")>>
    \o FluxFragments(0, p.nprocs)
    \o <<Step("fragment", "plot_energy"), Step("merge", "fig_stdout")>>

\* the history kind a data file is built from: the name up to its first point
KindOf(name) ==
    IF Find(name, ".", 1) = 0 THEN name ELSE SubSeq(name, 1, Find(name, ".", 1) - 1)

\* the rank at the end of a name such as plot_flux.1
RankOf(name) == SubSeq(name, Find(name, ".", 1) + 1, Len(name))

\* faulty variant: plot_freq cannot be drawn without dsp.dat
FragmentNeedsDsp(name, p) ==
    IF name = "plot_freq" THEN {"frq.dat", "dsp.dat"}
    ELSE IF name = "plot_mtr" THEN {"mtr.dat"}
    ELSE IF name = "plot_mtf" THEN {"mtf.dat"}
    ELSE IF name = "plot_elt" THEN {"elt_coarse.dat", "elt_medium.dat", "elt_fine.dat"}
    ELSE IF name = "plot_time_series"
         THEN {"dtc.dat", "eng.dat"} \cup (IF p.nprocs > 1 THEN {"men.dat"} ELSE {})
    ELSE IF name = "plot_energy"
         THEN {"ent.0.dat", "wes.dat"} \cup (IF p.nprocs > 1 THEN {"wem.dat"} ELSE {})
    ELSE {w \o "." \o SubSeq(name, 11, Len(name)) \o ".dat" :
            w \in {"ent", "ges", "gem", "qes", "qem"}}

\* the data files a fragment cannot be drawn without
FragmentNeeds(name, p) ==
    IF name = "plot_mtr" THEN {"mtr.dat"}
    ELSE IF name = "plot_mtf" THEN {"mtf.dat"}
    ELSE IF name = "plot_elt" THEN {"elt_coarse.dat", "elt_medium.dat", "elt_fine.dat"}
    ELSE IF name = "plot_freq" THEN {"frq.dat"}
    ELSE IF name = "plot_time_series"
         THEN {"dtc.dat", "eng.dat"} \cup (IF p.nprocs > 1 THEN {"men.dat"} ELSE {})
    ELSE IF name = "plot_energy"
         THEN {"ent.0.dat", "wes.dat"} \cup (IF p.nprocs > 1 THEN {"wem.dat"} ELSE {})
    ELSE IF KindOf(name) = "plot_flux"
         THEN {w \o "." \o RankOf(name) \o ".dat" : w \in {"ent", "ges", "gem", "qes", "qem"}}
    ELSE {}

\* the artifacts under out_root a step opens for reading, as pairs
\* <<subdirectory, name>>: read_csv of line 201, the loadtxt and read_csv
\* calls of the plots, the PdfReader of merge_pdfs; dsp.dat is opened only
\* when it was created
StepReads(st, p, miss, names) ==
    IF st.op = "entropy" THEN {<<"data", "bln." \o st.name \o ".dat">>}
    ELSE IF st.op = "fragment"
         THEN {<<"data", w>> : w \in FragmentNeeds(st.name, p)}
              \cup (IF st.name = "plot_time_series" THEN {<<"data", "men.dat">>} ELSE {})
              \cup (IF st.name = "plot_freq" /\ miss # "dsp"
                    THEN {<<"data", "dsp.dat">>} ELSE {})
    ELSE IF st.op = "merge"
         THEN {<<"fig", names[g] \o ".pdf">> : g \in 1..Len(names)}
    ELSE {}

\* the exception a step of the program ends with, "none" when it succeeds
StepException(st, fs, root, miss, p) ==
    IF st.op = "copy" /\ miss = st.name THEN "FileNotFoundError"
    ELSE IF st.op = "entropy" /\ ~Filled(fs, root, "data", "bln." \o st.name \o ".dat")
         THEN "EmptyDataError"
    ELSE IF st.op = "fragment"
            /\ \E w \in FragmentNeeds(st.name, p) : ~Filled(fs, root, "data", w)
         THEN "IndexError"
    ELSE "none"

\* faulty variant: the merged report is written into fig/
MergedReportInFig == "fig"

\* the merged report lies in out_root itself
MergedReportDir == ""

\* the only *.dsp.* files of hst/ that are not empty cannot be parsed
Unparsable == "dsp unparsable"

\* the files after a step of the program that succeeds
StepFiles(st, fs, root, miss, by) ==
    IF st.op = "copy" THEN WriteFile(fs, root, "data", st.name \o ".dat", "filled", by)
    ELSE IF st.op = "concat"
         THEN WriteFile(fs, root, "data", st.name \o ".dat",
                        IF miss = KindOf(st.name) THEN "empty" ELSE "filled", by)
    ELSE IF st.op = "entropy"
         THEN WriteFile(fs, root, "data", "ent." \o st.name \o ".dat", "filled", by)
    ELSE IF st.op = "dsp"
         THEN IF miss = "dsp" THEN fs
              ELSE WriteFile(fs, root, "data", "dsp.dat",
                             IF miss = Unparsable THEN "garbled" ELSE "filled", by)
    ELSE IF st.op = "fragment"
         THEN WriteFile(fs, root, "fig", st.name \o ".pdf", "filled", by)
    ELSE WriteFile(fs, root, MergedReportDir, "fig_stdout.pdf", "filled", by)

\* what the log and the namelist hold: the outcome of parse_parameters,
\* whether the log has the 79 lines calc_elt selects from, and the number of
\* pages their text fills in text_section.pdf
LogInfos ==
    { [parse |-> "ValueError", nprocs |-> 0, calc_type |-> "", long |-> TRUE, pages |-> 1] }
    \cup { [parse |-> "ok", nprocs |-> n, calc_type |-> c, long |-> l, pages |-> g] :
             n \in 1..MaxProcs, c \in {"lin_freq", "nonlinear"}, l \in BOOLEAN,
             g \in 1..MaxPages }

\* the number of pages of a fragment: the plots are one figure each
FragmentPages(name, info) == IF name = "text_section" THEN info.pages ELSE 1

\* the documents behind the names of the list pdfs
Fragments(names, info) ==
    [d \in 1..Len(names) |-> PdfReader(names[d], FragmentPages(names[d], info))]

\* plot_freq, lines 85-98: dsp.dat cannot be opened or parsed
DspWarning(st, fs, root) ==
    st.op = "fragment" /\ st.name = "plot_freq" /\ ~Filled(fs, root, "data", "dsp.dat")

NoParams == [nprocs |-> 0, calc_type |-> ""]

\* parser.exit(status = 2, ...)
ExitOnUsage == 2

\* faulty variant: a missing input ends main with the status of a usage error
ExitOnNotFoundAsUsage == ExitOnUsage

\* exit(1) of main's except clause
ExitOnNotFound == 1

\* the status of an interpreter that ends on an uncaught exception
ExitOnUncaught == 1

\* the number of the invocation that is running
Invocation == Len(exits) + 1

\* faulty variant: the timestamp of the first invocation names every
\* invocation's directory
out_root_first == stamps[1]

\* out_root of the running invocation, once line 175 has run
out_root == stamps[Len(stamps)]

InitRun ==
    /\ argv \in BOOLEAN
    /\ tree \in {t \in SUBSET {"dir", "hst", "log", "namelist"} : "dir" \in t \/ t = {}}
    /\ missing \in HistoryKinds \cup {"none", Unparsable}
    /\ FirstMissing(tree) # "none" => missing = "none"
    /\ loginfo \in LogInfos
    /\ (FirstMissing(tree) # "none" \/ ~argv) =>
          loginfo = [parse |-> "ok", nprocs |-> 1, calc_type |-> "nonlinear", long |-> TRUE, pages |-> 1]
    /\ now = 1
    /\ stamps = <<>>
    /\ runpc = "main"
    /\ stepno = 0
    /\ params = NoParams
    /\ pdfs = <<>>
    /\ dirs = {}
    /\ files = {}
    /\ exits = <<>>
    /\ rexc = "none"
    /\ printed = <<>>
    /\ merged = <<>>
    /\ EntropyIdle
    /\ ParseIdle
    /\ ConcatIdle
    /\ MergeIdle
    /\ CleanIdle

\* main, lines 274-279: no --dir, print the help text and exit with status 2
MainUsage ==
    /\ runpc = "main"
    /\ ~argv
    /\ printed' = Append(printed, "usage")
    /\ exits' = Append(exits, ExitOnUsage)
    /\ runpc' = "exited"
    /\ UNCHANGED <<argv, tree, missing, loginfo, now, stamps, stepno, params, pdfs,
                   dirs, files, rexc, merged, outsideRun>>

\* main, line 284: gkvfigpdf(args.dir)
MainCall ==
    /\ runpc = "main"
    /\ argv
    /\ runpc' = "validate"
    /\ UNCHANGED <<argv, tree, missing, loginfo, now, stamps, stepno, params, pdfs,
                   dirs, files, exits, rexc, printed, merged, outsideRun>>

\* lines 163-170: the first of the four paths that is missing is reported
ValidateRaise ==
    /\ runpc = "validate"
    /\ FirstMissing(tree) # "none"
    /\ rexc' = "FileNotFoundError"
    /\ printed' = Append(printed, FirstMissing(tree))
    /\ runpc' = "raised"
    /\ UNCHANGED <<argv, tree, missing, loginfo, now, stamps, stepno, params, pdfs,
                   dirs, files, exits, merged, outsideRun>>

\* lines 173-177: the timestamp is the clock to the second
Stamp ==
    /\ runpc = "validate"
    /\ FirstMissing(tree) = "none"
    /\ stamps' = Append(stamps, now)
    /\ runpc' = "clean_data"
    /\ UNCHANGED <<argv, tree, missing, loginfo, now, stepno, params, pdfs,
                   dirs, files, exits, rexc, printed, merged, outsideRun>>

\* line 180: clean_directory(data_dir)
CleanData ==
    /\ runpc = "clean_data"
    /\ dirs' = clean_directory(dirs, files, out_root, "data").dirs
    /\ files' = clean_directory(dirs, files, out_root, "data").files
    /\ runpc' = "clean_fig"
    /\ UNCHANGED <<argv, tree, missing, loginfo, now, stamps, stepno, params, pdfs,
                   exits, rexc, printed, merged, outsideRun>>

\* line 181: clean_directory(fig_dir)
CleanFig ==
    /\ runpc = "clean_fig"
    /\ dirs' = clean_directory(dirs, files, out_root, "fig").dirs
    /\ files' = clean_directory(dirs, files, out_root, "fig").files
    /\ runpc' = "parse"
    /\ UNCHANGED <<argv, tree, missing, loginfo, now, stamps, stepno, params, pdfs,
                   exits, rexc, printed, merged, outsideRun>>

\* line 184: parse_parameters(log_filepath) returns
Parameters ==
    /\ runpc = "parse"
    /\ loginfo.parse = "ok"
    /\ params' = [nprocs |-> loginfo.nprocs, calc_type |-> loginfo.calc_type]
    /\ runpc' = "calc_elt"
    /\ UNCHANGED <<argv, tree, missing, loginfo, now, stamps, stepno, pdfs,
                   dirs, files, exits, rexc, printed, merged, outsideRun>>

\* line 184: parse_parameters(log_filepath) raises ValueError
ParametersRaise ==
    /\ runpc = "parse"
    /\ loginfo.parse # "ok"
    /\ rexc' = loginfo.parse
    /\ runpc' = "raised"
    /\ UNCHANGED <<argv, tree, missing, loginfo, now, stamps, stepno, params, pdfs,
                   dirs, files, exits, printed, merged, outsideRun>>

\* line 187: calc_elt writes elt_coarse.dat, elt_medium.dat and elt_fine.dat
CalcElt ==
    /\ runpc = "calc_elt"
    /\ loginfo.long
    /\ files' = WriteFile(WriteFile(WriteFile(files,
                    out_root, "data", "elt_coarse.dat", "filled", Invocation),
                    out_root, "data", "elt_medium.dat", "filled", Invocation),
                    out_root, "data", "elt_fine.dat", "filled", Invocation)
    /\ stepno' = 1
    /\ runpc' = "steps"
    /\ UNCHANGED <<argv, tree, missing, loginfo, now, stamps, params, pdfs,
                   dirs, exits, rexc, printed, merged, outsideRun>>

\* line 187 on a log of fewer than 79 lines: _select_lines indexes past the
\* end of the list while elt_coarse.dat is being assembled
CalcEltRaise ==
    /\ runpc = "calc_elt"
    /\ ~loginfo.long
    /\ rexc' = "IndexError"
    /\ runpc' = "raised"
    /\ UNCHANGED <<argv, tree, missing, loginfo, now, stamps, stepno, params, pdfs,
                   dirs, files, exits, printed, merged, outsideRun>>

\* one statement of lines 189-255 that succeeds
RunStep ==
    /\ runpc = "steps"
    /\ stepno <= Len(Program(params))
    /\ StepException(Program(params)[stepno], files, out_root, missing, params) = "none"
    /\ files' = StepFiles(Program(params)[stepno], files, out_root, missing, Invocation)
    /\ pdfs' = IF Program(params)[stepno].op = "fragment"
               THEN Append(pdfs, Program(params)[stepno].name) ELSE pdfs
    /\ printed' = IF DspWarning(Program(params)[stepno], files, out_root)
                  THEN Append(printed, "WARN") ELSE printed
    /\ merged' = IF Program(params)[stepno].op = "merge"
                 THEN merge_pdfs(Fragments(pdfs, loginfo)) ELSE merged
    /\ stepno' = stepno + 1
    /\ UNCHANGED <<argv, tree, missing, loginfo, now, stamps, runpc, params,
                   dirs, exits, rexc, outsideRun>>

\* one statement of lines 189-255 that raises
StepRaise ==
    /\ runpc = "steps"
    /\ stepno <= Len(Program(params))
    /\ StepException(Program(params)[stepno], files, out_root, missing, params) # "none"
    /\ rexc' = StepException(Program(params)[stepno], files, out_root, missing, params)
    /\ runpc' = "raised"
    /\ UNCHANGED <<argv, tree, missing, loginfo, now, stamps, stepno, params, pdfs,
                   dirs, files, exits, printed, merged, outsideRun>>

\* line 256: gkvfigpdf returns
Return ==
    /\ runpc = "steps"
    /\ stepno > Len(Program(params))
    /\ printed' = Append(printed, "generated")
    /\ runpc' = "returned"
    /\ UNCHANGED <<argv, tree, missing, loginfo, now, stamps, stepno, params, pdfs,
                   dirs, files, exits, rexc, merged, outsideRun>>

\* main falls off its end: status 0
MainDone ==
    /\ runpc = "returned"
    /\ exits' = Append(exits, 0)
    /\ runpc' = "exited"
    /\ UNCHANGED <<argv, tree, missing, loginfo, now, stamps, stepno, params, pdfs,
                   dirs, files, rexc, printed, merged, outsideRun>>

\* lines 285-287: except FileNotFoundError, print the error and exit(1)
MainCatch ==
    /\ runpc = "raised"
    /\ rexc = "FileNotFoundError"
    /\ printed' = Append(printed, "Error")
    /\ exits' = Append(exits, ExitOnNotFound)
    /\ runpc' = "exited"
    /\ UNCHANGED <<argv, tree, missing, loginfo, now, stamps, stepno, params, pdfs,
                   dirs, files, rexc, merged, outsideRun>>

\* any other exception leaves main uncaught
MainUncaught ==
    /\ runpc = "raised"
    /\ rexc # "FileNotFoundError"
    /\ printed' = Append(printed, "Traceback")
    /\ exits' = Append(exits, ExitOnUncaught)
    /\ runpc' = "exited"
    /\ UNCHANGED <<argv, tree, missing, loginfo, now, stamps, stepno, params, pdfs,
                   dirs, files, rexc, merged, outsideRun>>

\* the command is run again from the same working directory, within the
\* same second of the clock or in the next one
Again ==
    /\ runpc = "exited"
    /\ Len(exits) < MaxInvocations
    /\ now' \in {now, now + 1}
    /\ runpc' = "main"
    /\ stepno' = 0
    /\ params' = NoParams
    /\ pdfs' = <<>>
    /\ rexc' = "none"
    /\ printed' = <<>>
    /\ merged' = <<>>
    /\ UNCHANGED <<argv, tree, missing, loginfo, stamps, dirs, files, exits, outsideRun>>

NextRun ==
    \/ MainUsage \/ MainCall \/ ValidateRaise \/ Stamp \/ CleanData \/ CleanFig
    \/ Parameters \/ ParametersRaise \/ CalcElt \/ CalcEltRaise
    \/ RunStep \/ StepRaise \/ Return
    \/ MainDone \/ MainCatch \/ MainUncaught \/ Again

SpecRun == InitRun /\ [][NextRun]_vars

(* ------------------------------ concat_files --------------------------- *)

\* the characters of file names in the order of their code points
CodeOrder == ".0123456789_abcdefghijklmnopqrstuvwxyz"

\* a < b for two strings, as Python compares them
RECURSIVE StrLess(_, _)
StrLess(a, b) ==
    IF b = "" THEN FALSE
    ELSE IF a = "" THEN TRUE
    ELSE IF Char(a, 1) = Char(b, 1) THEN StrLess(Tail(a), Tail(b))
    ELSE Find(CodeOrder, Char(a, 1), 1) < Find(CodeOrder, Char(b, 1), 1)

\* faulty variant: shorter names first, so that .9 comes before .10
ShorterFirst(a, b) == Len(a) < Len(b) \/ (Len(a) = Len(b) /\ StrLess(a, b))

\* the order sorted() puts paths of one directory in
NameLess(a, b) == StrLess(a, b)

\* sorted(S)
RECURSIVE SortedNames(_)
SortedNames(S) ==
    IF S = {} THEN <<>>
    ELSE LET m == CHOOSE x \in S : \A y \in S \ {x} : NameLess(x, y)
         IN  <<m>> \o SortedNames(S \ {m})

\* src_dir.glob(pattern) for a pattern that is a prefix followed by *
Glob(fs, pat) ==
    {n \in DOMAIN fs : StartsAt(n, 1, SubSeq(pat, 1, Len(pat) - 1))}

\* the names a directory may hold
FileNames ==
    {"gkvp.dtc.001", "gkvp.dtc.002", "gkvp.dtc.9", "gkvp.dtc.10", "gkvp.eng.001",
     "gkvp.bln.0.9", "gkvp.bln.0.10"}

\* the contents a file may have, as sequences of bytes
FileContents == {<<>>, <<49, 10>>, <<50, 32, 51, 10>>}

\* a row of a bln file as bytes: the time, a digit, and twenty fields 0
BlnRow(t) == <<48 + t>> \o [q \in 1..40 |-> IF q % 2 = 1 THEN 32 ELSE 48] \o <<10>>

\* the contents a bln file may have: no row, the row of time 1, the rows of
\* times 2 and 3
BlnContents == {<<>>, BlnRow(1), BlnRow(2) \o BlnRow(3)}

\* the contents a file of a given name may have
ContentsOf(n) == IF StartsAt(n, 1, "gkvp.bln.") THEN BlnContents ELSE FileContents

\* a destination left by an earlier call
OldDst == [exists |-> TRUE, lines |-> <<48>>]

\* the pieces of a sequence of bytes between the bytes equal to sep, the
\* empty pieces left out
SplitAt(b, sep) ==
    LET cuts == {q \in 1..Len(b) : b[q] = sep} \cup {Len(b) + 1}
        order == SortedSeq(cuts)
        from(g) == IF g = 1 THEN 1 ELSE order[g - 1] + 1
        pieces == [g \in 1..Len(order) |-> SubSeq(b, from(g), order[g] - 1)]
    IN  SelectSeq(pieces, LAMBDA x : x # <<>>)

\* the number a field of digits stands for
RECURSIVE FieldValue(_)
FieldValue(b) ==
    IF b = <<>> THEN 0
    ELSE 10 * FieldValue(SubSeq(b, 1, Len(b) - 1)) + (b[Len(b)] - 48)

\* pd.read_csv(path, sep=r'\s+', header=None) of a file of rows of numbers:
\* the rows in file order, each the sequence of its fields
read_csv(b) ==
    LET rows == SplitAt(b, 10)
    IN  [g \in 1..Len(rows) |->
           [c \in 1..Len(SplitAt(rows[g], 32)) |-> FieldValue(SplitAt(rows[g], 32)[c])]]

InitConcat ==
    /\ \E S \in {X \in SUBSET FileNames : Cardinality(X) <= MaxFiles} :
          srcfiles \in {g \in [S -> FileContents \cup BlnContents] :
                           \A n \in S : g[n] \in ContentsOf(n)}
    /\ pattern \in {"gkvp.dtc.*", "gkvp.eng.*", "gkvp.bln.0.*"}
    /\ dst \in {AbsentFile, OldDst}
    /\ pending = <<>>
    /\ cpc = "start"
    /\ EntropyIdle
    /\ ParseIdle
    /\ RunIdle
    /\ MergeIdle
    /\ CleanIdle

\* lines 61-64: the destination is opened for writing in binary mode, then
\* the matching files are listed in sorted order
ConcatOpen ==
    /\ cpc = "start"
    /\ dst' = [exists |-> TRUE, lines |-> <<>>]
    /\ pending' = SortedNames(Glob(srcfiles, pattern))
    /\ cpc' = "copying"
    /\ UNCHANGED <<srcfiles, pattern, outsideConcat>>

\* lines 65-66: outfile.write(infile.read()) for the next file
ConcatCopy ==
    /\ cpc = "copying"
    /\ pending # <<>>
    /\ dst' = [dst EXCEPT !.lines = @ \o srcfiles[Head(pending)]]
    /\ pending' = Tail(pending)
    /\ UNCHANGED <<srcfiles, pattern, cpc, outsideConcat>>

\* the loop is over: the with block closes the destination
ConcatClose ==
    /\ cpc = "copying"
    /\ pending = <<>>
    /\ cpc' = "done"
    /\ UNCHANGED <<srcfiles, pattern, dst, pending, outsideConcat>>

NextConcat == ConcatOpen \/ ConcatCopy \/ ConcatClose

SpecConcat == InitConcat /\ [][NextConcat]_vars

(* ----------------------------- clean_directory ------------------------- *)

\* a file tree maps the paths that are there, each a sequence of names below
\* the working directory, to what is there: a directory, a regular file, a
\* symbolic link to an empty directory elsewhere, or a symbolic link to
\* nothing
Kinds == {"dir", "file", "dirlink", "deadlink"}

\* the paths of the trees clean_directory is run on
TreePaths == {<<"a">>, <<"a", "b">>, <<"a", "c">>, <<"a", "b", "d">>}

Parent(q) == SubSeq(q, 1, Len(q) - 1)

\* q and the paths above it
Prefixes(q) == {SubSeq(q, 1, g) : g \in 1..Len(q)}

\* the file trees: whatever is below the top lies in a directory
FileTrees ==
    {t \in UNION {[S -> Kinds] : S \in SUBSET TreePaths} :
        \A q \in DOMAIN t : Len(q) > 1 => (Parent(q) \in DOMAIN t /\ t[Parent(q)] = "dir")}

\* Path.exists(): links are followed, a path through a regular file or
\* through a missing entry does not exist
path_exists(fs, q) == q \in DOMAIN fs /\ fs[q] # "deadlink"

\* Path.is_dir(): links are followed
is_dir(fs, q) == q \in DOMAIN fs /\ fs[q] \in {"dir", "dirlink"}

\* Path.iterdir(): the entries of the directory
iterdir(fs, q) == {c \in DOMAIN fs : Len(c) = Len(q) + 1 /\ Parent(c) = q}

\* shutil.rmtree(item) of a directory: it goes with everything below it
rmtree(fs, q) ==
    [c \in {x \in DOMAIN fs : ~(Len(x) >= Len(q) /\ SubSeq(x, 1, Len(q)) = q)} |-> fs[c]]

\* item.unlink()
unlink(fs, q) == [c \in DOMAIN fs \ {q} |-> fs[c]]

\* the exception dir_path.mkdir(parents=True) ends with on a path that does
\* not exist, "none" when it succeeds: os.mkdir fails on the deepest entry
\* that is there when it is a regular file or a link to nothing
MkdirException(fs, q) ==
    LET present == Prefixes(q) \cap DOMAIN fs
    IN  IF present = {} THEN "none"
        ELSE LET deepest == CHOOSE a \in present : \A b \in present : Len(b) <= Len(a)
             IN  IF fs[deepest] = "file" THEN "NotADirectoryError"
                 ELSE IF fs[deepest] = "deadlink" THEN "FileExistsError"
                 ELSE "none"

\* dir_path.mkdir(parents=True): the path and its missing parents become
\* directories
mkdir(fs, q) ==
    [c \in DOMAIN fs \cup Prefixes(q) |-> IF c \in DOMAIN fs THEN fs[c] ELSE "dir"]

InitClean ==
    /\ fsys0 \in FileTrees
    /\ fsys = fsys0
    /\ dir_path \in {<<"a">>, <<"a", "b">>, <<"a", "b", "d">>}
    /\ todo = {}
    /\ clpc = "start"
    /\ clexc = "none"
    /\ EntropyIdle
    /\ ParseIdle
    /\ RunIdle
    /\ ConcatIdle
    /\ MergeIdle

\* lines 34-36: the path is a directory, its entries are listed
CleanList ==
    /\ clpc = "start"
    /\ path_exists(fsys, dir_path) /\ is_dir(fsys, dir_path)
    /\ todo' = iterdir(fsys, dir_path)
    /\ clpc' = "iterating"
    /\ UNCHANGED <<fsys0, fsys, dir_path, clexc, outsideClean>>

\* lines 41-42: the path exists and is not a directory
CleanNotDir ==
    /\ clpc = "start"
    /\ path_exists(fsys, dir_path) /\ ~is_dir(fsys, dir_path)
    /\ clexc' = "ValueError"
    /\ clpc' = "raised"
    /\ UNCHANGED <<fsys0, fsys, dir_path, todo, outsideClean>>

\* lines 43-44: the path does not exist and mkdir succeeds
CleanMkdir ==
    /\ clpc = "start"
    /\ ~path_exists(fsys, dir_path)
    /\ MkdirException(fsys, dir_path) = "none"
    /\ fsys' = mkdir(fsys, dir_path)
    /\ clpc' = "done"
    /\ UNCHANGED <<fsys0, dir_path, todo, clexc, outsideClean>>

\* lines 43-44: the path does not exist and mkdir raises
CleanMkdirRaise ==
    /\ clpc = "start"
    /\ ~path_exists(fsys, dir_path)
    /\ MkdirException(fsys, dir_path) # "none"
    /\ clexc' = MkdirException(fsys, dir_path)
    /\ clpc' = "raised"
    /\ UNCHANGED <<fsys0, fsys, dir_path, todo, outsideClean>>

\* lines 37-38: an entry that is a directory is removed with its contents;
\* the entries come in the order the file system lists them
CleanRmtree ==
    /\ clpc = "iterating"
    /\ \E item \in todo :
          /\ fsys[item] = "dir"
          /\ fsys' = rmtree(fsys, item)
          /\ todo' = todo \ {item}
    /\ UNCHANGED <<fsys0, dir_path, clpc, clexc, outsideClean>>

\* lines 37-38: is_dir() is true of a link to a directory, and rmtree
\* refuses a symbolic link
CleanRmtreeRaise ==
    /\ clpc = "iterating"
    /\ \E item \in todo : fsys[item] = "dirlink"
    /\ clexc' = "OSError"
    /\ clpc' = "raised"
    /\ UNCHANGED <<fsys0, fsys, dir_path, todo, outsideClean>>

\* lines 39-40: any other entry is unlinked
CleanUnlink ==
    /\ clpc = "iterating"
    /\ \E item \in todo :
          /\ ~is_dir(fsys, item)
          /\ fsys' = unlink(fsys, item)
          /\ todo' = todo \ {item}
    /\ UNCHANGED <<fsys0, dir_path, clpc, clexc, outsideClean>>

\* the loop is over
CleanEnd ==
    /\ clpc = "iterating"
    /\ todo = {}
    /\ clpc' = "done"
    /\ UNCHANGED <<fsys0, fsys, dir_path, todo, clexc, outsideClean>>

NextClean ==
    \/ CleanList \/ CleanNotDir \/ CleanMkdir \/ CleanMkdirRaise
    \/ CleanRmtree \/ CleanRmtreeRaise \/ CleanUnlink \/ CleanEnd

SpecClean == InitClean /\ [][NextClean]_vars

(* ------------------------------ the inputs ----------------------------- *)

\* the strictly increasing time grids: h * s, s a subset of 0..TMax in order
Grids ==
    { [r \in 1..Cardinality(S) |-> h * SortedSeq(S)[r]] :
        S \in {X \in SUBSET (0..TMax) : Cardinality(X) <= MaxRows}, h \in 1..HMax }

\* cubic polynomials c[1] x^3 + c[2] x^2 + c[3] x + c[4] sampled on a grid
PolyCoeffs ==
    << <<0, 0, 0, 1>>, <<0, 0, 1, 0>>, <<0, 1, 0, 0>>, <<1, 0, 0, 0>>,
       <<0, 0, 2, 1>>, <<0, 0, -3, 2>> >>

Poly(c, x) == c[1] * x * x * x + c[2] * x * x + c[3] * x + c[4]

\* the columns a table is filled from: the unit impulses at every row and
\* the polynomials of PolyCoeffs sampled on the grid tt
Family(tt) ==
    [p \in 1..Len(tt) |-> [r \in 1..Len(tt) |-> IF r = p THEN 1 ELSE 0]]
    \o [q \in 1..Len(PolyCoeffs) |-> [r \in 1..Len(tt) |-> Poly(PolyCoeffs[q], tt[r])]]

\* the labels of pd.read_csv(..., header=None): 0 .. 20
InputLabels ==
    << "0", "1", "2", "3", "4", "5", "6", "7", "8", "9", "10",
       "11", "12", "13", "14", "15", "16", "17", "18", "19", "20" >>

\* a 21-column table on the grid tt: column 1 is the time, the c-th column
\* is the member j + c - 2 (cyclically) of the family
InputTable(tt, j) ==
    LET fam == Family(tt)
    IN  [c \in 1..Len(InputLabels) |->
           [name |-> InputLabels[c],
            vals |-> IF c = 1 THEN [r \in 1..Len(tt) |-> FInt(tt[r])]
                     ELSE [r \in 1..Len(tt) |->
                             FInt(fam[((j + c - 2) % Len(fam)) + 1][r])]]]

\* the evenly spaced grids 0, 1, .., n - 1
PlainGrids == { [r \in 1..n |-> r - 1] : n \in 0..MaxRows }

\* the table d with the cell of row r (from 1) of its c-th column replaced by v
WithCell(d, r, c, v) ==
    [cc \in 1..Len(d) |->
        IF cc = c THEN [d[cc] EXCEPT !.vals = [@ EXCEPT ![r] = v]] ELSE d[cc]]

\* the table d with its c-th column read as text throughout, as pd.read_csv
\* leaves a column that holds a token it cannot convert
WithTextColumn(d, c) ==
    [cc \in 1..Len(d) |->
        IF cc = c THEN [d[cc] EXCEPT !.vals = [r \in 1..Len(@) |-> Str("abc")]]
        ELSE d[cc]]

\* the table d without its last column, and with one column more
WithoutLastColumn(d) == SubSeq(d, 1, Len(d) - 1)

WithExtraColumn(d) == Append(d, [name |-> "21", vals |-> d[1].vals])

\* the tables save_entropy_balance can be called with: the well-formed one,
\* tables of 20 and 22 columns, tables with one cell or one column not numeric
AnyTables ==
    UNION { LET d == InputTable(tt, 0)
            IN  {d, WithoutLastColumn(d), WithExtraColumn(d)}
                \cup { WithCell(d, r, c, v) :
                         r \in 1..Len(tt), c \in 1..Len(d), v \in {Str("abc"), Obj} }
                \cup { WithTextColumn(d, c) : c \in {cc \in 1..Len(d) : Len(tt) > 0} }
          : tt \in PlainGrids }

\* a file left at the output path by an earlier run
OldFile == [exists |-> TRUE, lines |-> <<"old">>]

(* ------------------------------ the actions ---------------------------- *)

\* the output file does not exist on entry
EntropyStart ==
    /\ non_uniform \in BOOLEAN
    /\ result = <<>>
    /\ f = AbsentFile
    /\ i = 0
    /\ pc = "start"
    /\ exc = "none"
    /\ ParseIdle
    /\ RunIdle
    /\ ConcatIdle
    /\ MergeIdle
    /\ CleanIdle

Init ==
    /\ \E tt \in Grids : \E j \in 0..(Len(Family(tt)) - 1) : df = InputTable(tt, j)
    /\ EntropyStart

\* save_entropy_balance, line 199: result = _calc_entropy_balance(df, non_uniform)
Calc ==
    /\ pc = "start"
    /\ CalcException(df, non_uniform) = "none"
    /\ result' = _calc_entropy_balance(df, non_uniform)
    /\ df' = CallerTable(df, _calc_entropy_balance(df, non_uniform))
    /\ pc' = "calculated"
    /\ UNCHANGED <<non_uniform, f, i, exc, outsideEntropy>>

\* line 199 when _calc_entropy_balance raises: line 200 is not reached
CalcRaise ==
    /\ pc = "start"
    /\ CalcException(df, non_uniform) # "none"
    /\ exc' = CalcException(df, non_uniform)
    /\ f' = FileAfterFailedCalc(f)
    /\ df' = CallerTable(df, LocalAtRaise(df, non_uniform))
    /\ pc' = "raised"
    /\ UNCHANGED <<non_uniform, result, i, outsideEntropy>>

\* _save_entropy_balance: filepath.open('w') and the header line
Open ==
    /\ pc = "calculated"
    /\ f' = [exists |-> TRUE, lines |-> <<HeaderLine>>]
    /\ i' = 0
    /\ pc' = "writing"
    /\ UNCHANGED <<df, non_uniform, result, exc, outsideEntropy>>

\* one pass of the loop `for i in range(len(df))`
WriteRow ==
    /\ pc = "writing"
    /\ i < NRows(result)
    /\ ~RowRaises(result, i)
    /\ f' = [f EXCEPT !.lines = Append(@, RowLine(result, i))]
    /\ i' = i + 1
    /\ UNCHANGED <<df, non_uniform, result, pc, exc, outsideEntropy>>

\* a pass of the loop whose formatting raises: the with block closes the
\* file with the lines written so far
WriteRaise ==
    /\ pc = "writing"
    /\ i < NRows(result)
    /\ RowRaises(result, i)
    /\ exc' = "TypeError"
    /\ pc' = "raised"
    /\ UNCHANGED <<df, non_uniform, result, f, i, outsideEntropy>>

\* the loop is over: the with block closes the file
Close ==
    /\ pc = "writing"
    /\ i >= NRows(result)
    /\ pc' = "done"
    /\ UNCHANGED <<df, non_uniform, result, f, i, exc, outsideEntropy>>

\* save_entropy_balance on the tables the pipeline hands it
Next == Calc \/ Open \/ WriteRow \/ Close

Spec == Init /\ [][Next]_vars

\* save_entropy_balance on any table, the output path free or taken
InitAnyTable ==
    /\ df \in AnyTables
    /\ non_uniform \in BOOLEAN
    /\ result = <<>>
    /\ f \in {AbsentFile, OldFile}
    /\ i = 0
    /\ pc = "start"
    /\ exc = "none"
    /\ ParseIdle
    /\ RunIdle
    /\ ConcatIdle
    /\ MergeIdle
    /\ CleanIdle

NextAnyTable == Calc \/ CalcRaise \/ Open \/ WriteRow \/ WriteRaise \/ Close

SpecAnyTable == InitAnyTable /\ [][NextAnyTable]_vars

\* the time columns of at most MaxRows rows that start at 1 and move by
\* -1, 0 or +1 from one row to the next: times repeat and decrease
RECURSIVE Walks(_)
Walks(n) ==
    IF n = 0 THEN {<<>>}
    ELSE IF n = 1 THEN {<<1>>}
    ELSE {Append(w, w[Len(w)] + s) : w \in Walks(n - 1), s \in {-1, 0, 1}}

AnyTimes == UNION {Walks(n) : n \in 0..MaxRows}

\* save_entropy_balance on numeric tables whose times are in any order
InitAnyTimes ==
    /\ \E tt \in AnyTimes : \E j \in {0, Len(tt)} : df = InputTable(tt, j)
    /\ EntropyStart

NextAnyTimes == Calc \/ Open \/ WriteRow \/ Close

SpecAnyTimes == InitAnyTimes /\ [][NextAnyTimes]_vars

(* ------------------------- reading the state --------------------------- *)

\* number of rows of the input table
N == NRows(df)

\* the whole numbers of a column of the input table (its cells are n/1)
Ints(col) == [r \in 1..Len(col) |-> col[r].n]

\* the input time column and the k-th source column (Ss_nz .. WM_zf), by position
T == Ints(df[1].vals)

Y(k) == Ints(df[k + 1].vals)

\* the k-th derivative column of the calculated table
D(k) == Values(result, DerivativeNames[k])

\* the state in which _calc_entropy_balance has returned its table; no later
\* step changes the table
Calculated == pc = "calculated"

\* the 0-based rows with a five-point window
Interior == {j \in 0..(N - 1) : 2 <= j /\ j <= N - 3}

\* the float v equals the fraction a/b (b # 0)
IsFrac(v, a, b) == IsFinite(v) /\ v.n * b = a * v.d

\* the five times t[j-2..j+2] are equally spaced
EvenWindow(j) ==
    \A m \in (j - 2)..(j + 1) : At(T, m + 1) - At(T, m) = At(T, j + 1) - At(T, j)

\* the whole grid is equally spaced
EvenGrid == \A r \in 1..(N - 1) : T[r + 1] - T[r] = T[2] - T[1]

(* ------------------------------- C1 ------------------------------------ *)

\* C1: after the calculation every derivative column has one cell per row,
\* holding nan exactly at the rows i < 2 or i > n-3 and a finite computed
\* value at every other row, for both estimators (so every row is nan when
\* n < 5, and the nan rows are 0, 1, n-2, n-1 when n >= 5).
C1_SentinelRows ==
    Calculated =>
        \A k \in 1..6 :
            /\ Len(D(k)) = N
            /\ \A j \in 0..(N - 1) :
                  IF j < 2 \/ j > N - 3 THEN IsNaN(At(D(k), j))
                  ELSE IsFinite(At(D(k), j))

C1_Witness ==
    /\ pc = "calculated"
    /\ N >= 5
    /\ IsNaN(At(D(1), 1)) /\ IsFinite(At(D(1), 2)) /\ IsNaN(At(D(1), N - 2))

(* ------------------------------- C2 ------------------------------------ *)

\* C2: the uniform estimator's value at every interior row i is
\* (y[i-2] - 8 y[i-1] + 8 y[i+1] - y[i+2]) / (12 h) with h = t[i+1] - t[i],
\* whatever the other gaps of the window are.
C2_UniformFormula ==
    (Calculated /\ ~non_uniform) =>
        \A k \in 1..6 : \A j \in Interior :
            LET y == Y(k)
                h == At(T, j + 1) - At(T, j)
            IN  IsFrac(At(D(k), j),
                       At(y, j - 2) - 8 * At(y, j - 1) + 8 * At(y, j + 1) - At(y, j + 2),
                       12 * h)

\* a window with unequal gaps and a column that is not constant
C2_Witness ==
    /\ pc = "calculated" /\ ~non_uniform /\ N >= 5
    /\ ~EvenWindow(2)
    /\ At(Y(1), 3) # At(Y(1), 1)
    /\ At(D(1), 2).n # 0

(* ------------------------------- C3 ------------------------------------ *)

RECURSIVE ProdOver(_, _)
ProdOver(fn, S) ==
    IF S = {} THEN 1
    ELSE LET x == CHOOSE z \in S : TRUE IN fn[x] * ProdOver(fn, S \ {x})

RECURSIVE SumOver(_, _)
SumOver(fn, S) ==
    IF S = {} THEN 0
    ELSE LET x == CHOOSE z \in S : TRUE IN fn[x] + SumOver(fn, S \ {x})

Stencil == {-2, -1, 0, 1, 2}

\* numerator and denominator of the derivative at t[j] of the Lagrange basis
\* polynomial of node k:  sum_{q # k} prod_{m # k, q} (t_0 - t_m)  over
\* prod_{m # k} (t_k - t_m)
LagrangeNum(j, k) ==
    SumOver([q \in Stencil \ {k} |->
                ProdOver([m \in Stencil \ {k, q} |-> At(T, j) - At(T, j + m)],
                         Stencil \ {k, q})],
            Stencil \ {k})

LagrangeDen(j, k) ==
    ProdOver([m \in Stencil \ {k} |-> At(T, j + k) - At(T, j + m)], Stencil \ {k})

LagrangeWeight(j, k) == Norm(LagrangeNum(j, k), LagrangeDen(j, k))

RECURSIVE FSumOver(_, _)
FSumOver(fn, S) ==
    IF S = {} THEN FInt(0)
    ELSE LET x == CHOOSE z \in S : TRUE IN FAdd(fn[x], FSumOver(fn, S \ {x}))

LagrangeDerivative(y, j) ==
    FSumOver([k \in Stencil |-> FMul(LagrangeWeight(j, k), FInt(At(y, j + k)))], Stencil)

\* C3: the non-uniform estimator's value at every interior row i is
\* sum_k c_k y[i+k] with c_k the derivative at t[i] of the Lagrange basis
\* polynomial of node k over the nodes t[i-2..i+2]; for k # 0 a single
\* product survives in the numerator.
C3_LagrangeFormula ==
    (Calculated /\ non_uniform) =>
        \A k \in 1..6 : \A j \in Interior :
            /\ At(D(k), j) = LagrangeDerivative(Y(k), j)
            /\ \A m \in Stencil \ {0} :
                  LagrangeNum(j, m) =
                      ProdOver([q \in Stencil \ {m, 0} |-> At(T, j) - At(T, j + q)],
                               Stencil \ {m, 0})

C3_Witness ==
    /\ pc = "calculated" /\ non_uniform /\ N >= 5
    /\ ~EvenWindow(2)
    /\ At(Y(1), 2) # 0
    /\ At(D(1), 2).n # 0

(* ------------------------------- C4 ------------------------------------ *)

\* C4: on an equally spaced grid of step h both estimators give the same
\* value at every interior row, and the five weights of the non-uniform
\* estimator are (1, -8, 0, 8, -1) / (12 h).
C4_EqualOnEvenGrid ==
    (Calculated /\ EvenGrid) =>
        \A k \in 1..6 : \A j \in Interior :
            LET t == df[1].vals
                y == df[k + 1].vals
                w == Window(t, j)
                h == At(T, j + 1) - At(T, j)
            IN  /\ At(D(k), j) = At(uniform_derivative(t, y), j)
                /\ At(D(k), j) = At(non_uniform_derivative(t, y), j)
                /\ IsFrac(Cefm2(w), 1, 12 * h)
                /\ IsFrac(Cefm1(w), -8, 12 * h)
                /\ IsFrac(Cefp0(w), 0, 12 * h)
                /\ IsFrac(Cefp1(w), 8, 12 * h)
                /\ IsFrac(Cefp2(w), -1, 12 * h)

C4_Witness ==
    /\ pc = "calculated" /\ non_uniform /\ N >= 6
    /\ EvenGrid /\ T[2] - T[1] = 2
    /\ At(D(1), 2).n # 0

(* ------------------------------- C5 ------------------------------------ *)

\* the column y is a linear ramp a t + b over the grid (two rows or more)
IsLinear(y) ==
    /\ N >= 2
    /\ \A r \in 1..N : (y[r] - y[1]) * (T[2] - T[1]) = (y[2] - y[1]) * (T[r] - T[1])

\* C5 as stated: for a column that is a linear ramp a t + b, both
\* estimators return a at every interior row, also on a grid that is not
\* equally spaced.
C5_LinearExact ==
    Calculated =>
        \A k \in 1..6 :
            IsLinear(Y(k)) =>
                \A j \in Interior :
                    IsFrac(At(D(k), j), Y(k)[2] - Y(k)[1], T[2] - T[1])

\* C5 amended: for a column that is a linear ramp a t + b, the non-uniform
\* estimator returns a at every interior row of every strictly increasing
\* grid; the uniform estimator returns
\* a (t[i-2] - 8 t[i-1] + 8 t[i+1] - t[i+2]) / (12 (t[i+1] - t[i])), which is
\* a at the rows whose five times are equally spaced.
C5_LinearAmended ==
    Calculated =>
        \A k \in 1..6 :
            IsLinear(Y(k)) =>
                \A j \in Interior :
                    LET dy == Y(k)[2] - Y(k)[1]
                        dt == T[2] - T[1]
                    IN  /\ (non_uniform \/ EvenWindow(j)) => IsFrac(At(D(k), j), dy, dt)
                        /\ ~non_uniform =>
                              IsFrac(At(D(k), j),
                                     dy * (At(T, j - 2) - 8 * At(T, j - 1)
                                           + 8 * At(T, j + 1) - At(T, j + 2)),
                                     dt * 12 * (At(T, j + 1) - At(T, j)))

C5_Witness ==
    /\ pc = "calculated" /\ non_uniform /\ N >= 5
    /\ ~EvenWindow(2)
    /\ IsLinear(Y(1)) /\ Y(1)[2] # Y(1)[1]
    /\ IsFrac(At(D(1), 2), Y(1)[2] - Y(1)[1], T[2] - T[1])

(* ------------------------------- C6 ------------------------------------ *)

IsCube(y) == \A r \in 1..N : y[r] = T[r] * T[r] * T[r]

\* the values of the two estimators on the k-th source column at row j; the
\* one the run selected is read from the calculated table
NonUniformValue(k, j) ==
    IF non_uniform THEN At(D(k), j)
    ELSE At(non_uniform_derivative(df[1].vals, df[k + 1].vals), j)

UniformValue(k, j) ==
    IF non_uniform THEN At(uniform_derivative(df[1].vals, df[k + 1].vals), j)
    ELSE At(D(k), j)

\* |v - x| for a float v and a whole number x
ErrorTo(v, x) == FAbs(FSub(v, FInt(x)))

\* C6 as stated: on a grid that is not equally spaced, for the column
\* y = t^3 the non-uniform estimator returns 3 t[i]^2 at every interior row
\* and its error there is strictly smaller than the uniform estimator's.
C6_CubeStrict ==
    (Calculated /\ ~EvenGrid) =>
        \A k \in 1..6 :
            IsCube(Y(k)) =>
                \A j \in Interior :
                    LET exact == 3 * At(T, j) * At(T, j)
                    IN  /\ NonUniformValue(k, j) = FInt(exact)
                        /\ FLess(ErrorTo(NonUniformValue(k, j), exact),
                                 ErrorTo(UniformValue(k, j), exact))

\* C6 amended: on a grid that is not equally spaced, for the column y = t^3
\* the non-uniform estimator returns 3 t[i]^2 at every interior row; its
\* error is never larger than the uniform estimator's and is strictly
\* smaller exactly at the rows where the uniform value is not 3 t[i]^2; at a
\* row whose five times are equally spaced the uniform estimator returns
\* 3 t[i]^2 as well.
C6_CubeAmended ==
    (Calculated /\ ~EvenGrid) =>
        \A k \in 1..6 :
            IsCube(Y(k)) =>
                \A j \in Interior :
                    LET exact == 3 * At(T, j) * At(T, j)
                        errN  == ErrorTo(NonUniformValue(k, j), exact)
                        errU  == ErrorTo(UniformValue(k, j), exact)
                    IN  /\ NonUniformValue(k, j) = FInt(exact)
                        /\ ~FLess(errU, errN)
                        /\ FLess(errN, errU) <=> UniformValue(k, j) # FInt(exact)
                        /\ EvenWindow(j) => UniformValue(k, j) = FInt(exact)

\* a grid with one row whose window is equally spaced and one whose is not
C6_Witness ==
    /\ pc = "calculated" /\ non_uniform /\ N >= 6 /\ ~EvenGrid
    /\ IsCube(Y(1))
    /\ EvenWindow(2) /\ ~EvenWindow(3)
    /\ At(D(1), 2) = FInt(3 * At(T, 2) * At(T, 2))
    /\ At(D(1), 3) = FInt(3 * At(T, 3) * At(T, 3))
    /\ UniformValue(1, 3) # FInt(3 * At(T, 3) * At(T, 3))

(* ------------------------------- C7 ------------------------------------ *)

IsSquare(y) == \A r \in 1..N : y[r] = T[r] * T[r]

\* C7: on an equally spaced grid, for the column y = t^2, the estimator the
\* run selected (uniform or non-uniform) returns 2 t[i] at every interior row.
C7_SquareExact ==
    (Calculated /\ EvenGrid) =>
        \A k \in 1..6 :
            IsSquare(Y(k)) =>
                \A j \in Interior :
                    /\ At(D(k), j) = FInt(2 * At(T, j))
                    /\ NonUniformValue(k, j) = UniformValue(k, j)

C7_Witness ==
    /\ pc = "calculated" /\ ~non_uniform /\ N >= 5
    /\ EvenGrid /\ T[2] - T[1] = 2
    /\ IsSquare(Y(2))
    /\ At(D(2), 2) = FInt(2 * At(T, 2)) /\ At(T, 2) > 0

(* ------------------------------- C8 ------------------------------------ *)

\* C8: the calculated table has exactly 27 columns, the 21 input columns in
\* their positional order under the schema's names followed by the six
\* derivative columns, every column with the rows of the input, and the
\* cells of the 21 input columns unchanged and in the same row order.
C8_Frame ==
    Calculated =>
        /\ Len(result) = 27
        /\ [c \in 1..Len(result) |-> result[c].name]
              = << "t", "Ss_nz", "Ss_zf", "WE_nz", "WE_zf", "WM_nz", "WM_zf",
                   "RE_nz", "RE_zf", "RM_nz", "RM_zf", "NE_nz", "NE_zf", "NM_nz",
                   "NM_zf", "Ds_nz", "Ds_zf", "GE", "GM", "QE", "QM",
                   "dSsdt_nz", "dSsdt_zf", "dWEdt_nz", "dWEdt_zf", "dWMdt_nz",
                   "dWMdt_zf" >>
        /\ \A c \in 1..Len(result) : Len(result[c].vals) = N
        /\ Len(df) = 21
        /\ \A c \in 1..Len(df) : result[c].vals = df[c].vals

C8_Witness ==
    /\ pc = "calculated" /\ N >= 5
    /\ Len(result) = 27
    /\ result[2].vals = df[2].vals /\ result[2].vals # result[3].vals
    /\ IsFinite(At(result[22].vals, 2))

(* ------------------------------- C9 ------------------------------------ *)

\* the c-th 17-character field of a line
Field(line, c) == SubSeq(line, (c - 1) * 17 + 1, c * 17)

\* the file is written and closed
Saved == pc = "done"

\* the data lines of the file, as 0-based row numbers
WrittenRows == {j \in 0..(N - 1) : j + 2 <= Len(f.lines)}

\* the line of row j
LineOf(j) == f.lines[j + 2]

RECURSIVE TrimLeft(_)
TrimLeft(s) ==
    IF Len(s) > 0 /\ SubSeq(s, 1, 1) = " " THEN TrimLeft(Tail(s)) ELSE s

\* a number in scientific notation: sign, digit, point, seven digits, e,
\* sign, two or more digits
IsSciToken(tok) ==
    LET u == IF Len(tok) > 0 /\ SubSeq(tok, 1, 1) = "-" THEN Tail(tok) ELSE tok
    IN  /\ Len(u) >= 13
        /\ IsDigits(SubSeq(u, 1, 1))
        /\ SubSeq(u, 2, 2) = "."
        /\ IsDigits(SubSeq(u, 3, 9))
        /\ SubSeq(u, 10, 10) = "e"
        /\ SubSeq(u, 11, 11) \in {"+", "-"}
        /\ IsDigits(SubSeq(u, 12, Len(u)))

NaNField == "              NaN"

\* C9: in the text file, the six derivative fields of the first two and the
\* last two rows are the token NaN, never a number, and on every other row
\* they are the computed values in scientific notation; for both estimators.
C9_SentinelToken ==
    Saved =>
        /\ WrittenRows = 0..(N - 1)
        /\ \A j \in WrittenRows : \A c \in 2..7 :
              IF j < 2 \/ j > N - 3
              THEN Field(LineOf(j), c) = NaNField
              ELSE /\ IsSciToken(TrimLeft(Field(LineOf(j), c)))
                   /\ Field(LineOf(j), c) = RJust(FmtE(At(D(c - 1), j)), 17)

C9_Witness ==
    /\ pc = "done" /\ N >= 6
    /\ Field(LineOf(1), 2) = NaNField
    /\ Field(LineOf(N - 2), 2) = NaNField
    /\ IsSciToken(TrimLeft(Field(LineOf(2), 2)))
    /\ Field(LineOf(2), 2) # RJust(FmtE(FInt(0)), 17)
    /\ IsSciToken(TrimLeft(Field(LineOf(N - 3), 7)))

(* ------------------------------- C10 ----------------------------------- *)

\* the column names of the header in the order of the fields
OutputOrder ==
    << "#            time",
       "dSsdt_nz", "dSsdt_zf", "dWEdt_nz", "dWEdt_zf", "dWMdt_nz", "dWMdt_zf",
       "RE_nz", "RE_zf", "RM_nz", "RM_zf", "NE_nz", "NE_zf", "NM_nz", "NM_zf",
       "Ds_nz", "Ds_zf", "GE", "GM", "QE", "QM" >>

\* a 17-character field that ends in its token
IsRightJustified(fld) == Len(fld) = 17 /\ SubSeq(fld, 17, 17) # " "

\* C10: every line of the text file is 21 right-justified fields of 17
\* characters; the header names t, the six derivative columns, then RE_nz
\* .. QM; the line of row i holds t[i], the six derivative fields, then the
\* input's columns 8 .. 21 (RE_nz .. QM) of row i, so that the source
\* columns 2 .. 7 (Ss, WE, WM) are not written; the finished file is one
\* header line followed by one line per input row in input order.
C10_Layout ==
    Saved =>
        /\ Len(f.lines) = N + 1
        /\ Len(f.lines[1]) = 21 * 17
        /\ \A c \in 1..21 :
              /\ IsRightJustified(Field(f.lines[1], c))
              /\ TrimLeft(Field(f.lines[1], c)) = OutputOrder[c]
        /\ \A j \in 0..(N - 1) :
              /\ Len(LineOf(j)) = 21 * 17
              /\ \A c \in 1..21 : IsRightJustified(Field(LineOf(j), c))
              /\ \A c \in {1} \cup (8..21) :
                    /\ IsSciToken(TrimLeft(Field(LineOf(j), c)))
                    /\ Field(LineOf(j), c) = RJust(FmtE(At(df[c].vals, j)), 17)
              /\ \A c \in 2..7 :
                    \/ Field(LineOf(j), c) = NaNField
                    \/ Field(LineOf(j), c) = RJust(FmtE(At(D(c - 1), j)), 17)

C10_Witness ==
    /\ pc = "done" /\ N >= 5
    /\ Len(f.lines) = N + 1
    /\ Field(LineOf(2), 18) # Field(LineOf(2), 19)
    /\ Field(LineOf(2), 1) = RJust(FmtE(At(df[1].vals, 2)), 17)
    /\ Field(LineOf(3), 21) = RJust(FmtE(At(df[21].vals, 3)), 17)

(* ------------------------------- C11 ----------------------------------- *)

\* <<floor(a * 10^k / d), a * 10^k mod d>>, one digit at a time
RECURSIVE DivPow10(_, _, _)
DivPow10(qr, d, k) ==
    IF k = 0 THEN qr
    ELSE DivPow10(<<10 * qr[1] + (10 * qr[2]) \div d, (10 * qr[2]) % d>>, d, k - 1)

\* the parsed field x is the number v rounded to the last printed digit:
\* |v - x| is at most half a unit of that digit
WithinPrinted(v, x) ==
    /\ x.k = "dec"
    /\ x.p <= 0
    /\ (v.n < 0) = (x.neg /\ x.m # 0) \/ (x.m = 0 /\ v.n = 0)
    /\ LET qr == DivPow10(<<Abs(v.n) \div v.d, Abs(v.n) % v.d>>, v.d, -x.p)
       IN  \/ x.m = qr[1] /\ 2 * qr[2] <= v.d
           \/ x.m = qr[1] + 1 /\ 2 * qr[2] >= v.d

\* C11: reading the written file back with np.loadtxt, as the plot loaders
\* do, gives a table of as many rows as the input table, every written
\* number within half a unit of its last printed digit, and nan, never 0.0,
\* in the six derivative fields of the sentinel rows.
C11_RoundTrip ==
    Saved =>
        \A d \in {loadtxt(f.lines)} :
            /\ Len(d.a) = N
            /\ \A j \in 0..(N - 1) :
                  /\ d.ndim = 2
                  /\ Len(At(d.a, j)) = Len(header_cols)
                  /\ \A c \in 1..Len(header_cols) :
                        LET v == RowValues(result, j)[c]
                            x == At(d.a, j)[c]
                        IN  IF v.k = "str" THEN x.k = "nan" ELSE WithinPrinted(v, x)

(* ------------------------------- C12 ----------------------------------- *)

Raised == pc = "raised"

\* the output file is as it was before the call
FileUntouched == f \in {AbsentFile, OldFile}

\* C12: a table whose column count is not 21 makes save_entropy_balance
\* raise ValueError while assigning the column names: the call never gets
\* past that point, the output file is neither created nor truncated, and
\* no step follows the raise.
C12_WrongColumnCount ==
    ~ColumnsFit(df) =>
        /\ pc \in {"start", "raised"}
        /\ FileUntouched
        /\ Raised => exc = "ValueError" /\ result = <<>> /\ ~ENABLED NextAnyTable

C12_Witness ==
    Raised /\ exc = "ValueError" /\ Len(df) = Len(ColumnNames) + 1 /\ f = OldFile

(* ------------------------------- C13 ----------------------------------- *)

\* some cell of the table is not a number
HasNonNumeric(d) ==
    \E c \in 1..Len(d) : \E r \in 1..Len(d[c].vals) : ~IsNum(d[c].vals[r])

\* C13: a 21-column table with a non-numeric cell, whatever its row count
\* and whichever column holds the cell, makes save_entropy_balance fail: the
\* call never completes and the output file is neither partially nor fully
\* written.
C13_NonNumericFatal ==
    (ColumnsFit(df) /\ HasNonNumeric(df)) => (pc # "done" /\ FileUntouched)

(* ------------------------------- C14 ----------------------------------- *)

\* parse_parameters has ended
ParseEnded == ret \in {"returned", "ValueError"}

\* each of the three regular expressions matches some line of the log
AllMarkersMatched ==
    /\ \E l \in 1..Len(log) : NprocsGroup(log[l]) # ""
    /\ \E l \in 1..Len(log) : GlobalNyGroup(log[l]) # ""
    /\ \E l \in 1..Len(log) : CalcTypeGroup(log[l]) # ""

\* C14: parse_parameters returns its triple exactly when each of the three
\* markers is matched on at least one line of the log; otherwise it raises
\* at the end of the file and returns nothing.
C14_TripleIff ==
    ParseEnded =>
        /\ (ret = "returned") <=> AllMarkersMatched
        /\ ret = "returned" => ~SomethingMissing

(* ------------------------------- C15 ----------------------------------- *)

\* gkvfigpdf has raised
RunRaised == runpc = "raised"

\* one of the four validated paths is missing
InvalidTree == \E q \in 1..Len(RequiredPaths) : RequiredPaths[q] \notin tree

\* C15: when the directory argument, hst/, the log file or the namelist file
\* is missing, gkvfigpdf raises FileNotFoundError for the first of them in
\* that order, and nothing has been created under the working directory.
C15_ValidationOrder ==
    (argv /\ InvalidTree) =>
        /\ runpc \in {"main", "validate", "raised", "exited"}
        /\ dirs = {} /\ files = {} /\ stamps = <<>>
        /\ RunRaised =>
              /\ rexc = "FileNotFoundError"
              /\ \E q \in 1..Len(RequiredPaths) :
                    /\ printed = <<RequiredPaths[q]>>
                    /\ RequiredPaths[q] \notin tree
                    /\ \A e \in 1..(q - 1) : RequiredPaths[e] \in tree

C15_Witness ==
    RunRaised /\ tree = {"dir", "namelist"} /\ printed = <<"hst">> /\ dirs = {}

(* ------------------------------- C16 ----------------------------------- *)

\* history files without which no run completes
RequiredHistory == {"mtr", "mtf", "bln"}

\* C16: when a required history file is missing under hst/, the error is
\* raised before any processing: no output directory has been created and no
\* aggregation step has run.
C16_HistoryValidated ==
    (argv /\ ~InvalidTree /\ missing \in RequiredHistory) =>
        /\ runpc \in {"main", "validate", "raised", "exited"}
        /\ dirs = {} /\ files = {}

(* ------------------------------- C17 ----------------------------------- *)

\* main has ended
Exited == runpc = "exited"

LastExit == exits[Len(exits)]

\* C17: main ends with status 2, the usage text printed, when --dir is
\* omitted; with status 1 whenever gkvfigpdf raised FileNotFoundError; with
\* status 0 when gkvfigpdf completed.
C17_ExitCodes ==
    Exited =>
        /\ ~argv => LastExit = 2 /\ printed = <<"usage">>
        /\ (argv /\ rexc = "FileNotFoundError") => LastExit = 1
        /\ (argv /\ rexc = "none") => LastExit = 0

C17_Witness ==
    Exited /\ argv /\ rexc = "FileNotFoundError" /\ missing = "mtf" /\ exits = <<1>>

(* ------------------------------- C18 ----------------------------------- *)

\* gkvfigpdf has returned
Returned == runpc = "returned"

\* C18: when gkvfigpdf has returned, the working directory holds the
\* directory figpdf_<timestamp> with data/, fig/ and the merged report
\* fig_stdout.pdf in it.
C18_OutputTree ==
    Returned =>
        /\ stamps # <<>>
        /\ {<<stamps[Len(stamps)], "">>, <<stamps[Len(stamps)], "data">>,
             <<stamps[Len(stamps)], "fig">>} \subseteq dirs
        /\ File(stamps[Len(stamps)], "", "fig_stdout.pdf", "filled", Invocation) \in files

C18_Witness ==
    /\ Returned /\ params = [nprocs |-> 2, calc_type |-> "lin_freq"]
    /\ <<stamps[Len(stamps)], "fig">> \in dirs
    /\ File(stamps[Len(stamps)], "", "fig_stdout.pdf", "filled", 1) \in files

(* ------------------------------- C19 ----------------------------------- *)

\* the merged report invocation a wrote is still there
ReportKept(a) == File(stamps[a], "", "fig_stdout.pdf", "filled", a) \in files

\* invocation b has got past its two clean_directory calls
Cleaned(b) ==
    b < Invocation \/ (b = Invocation /\ b <= Len(stamps)
                         /\ runpc \notin {"main", "validate", "clean_data", "clean_fig"})

\* C19 as stated: no two invocations use the same figpdf_<timestamp>
\* directory, and the report of an invocation that completed is never
\* deleted or overwritten by another.
C19_Fresh ==
    /\ \A a, b \in 1..Len(stamps) : a # b => stamps[a] # stamps[b]
    /\ \A a \in 1..Len(exits) : exits[a] = 0 => ReportKept(a)

\* C19 amended: the directory is named by the clock to the second alone.
\* Invocations whose timestamps differ use different directories and the
\* outputs of one are never deleted or overwritten by the other; an
\* invocation whose timestamp equals an earlier one's uses the same
\* directory, and once its clean_directory calls are over nothing the
\* earlier one wrote under data/ or fig/ is left.
C19_FreshPerSecond ==
    /\ \A a \in 1..Len(exits) :
          (exits[a] = 0 /\ \A b \in 1..Len(stamps) : b # a => stamps[b] # stamps[a])
              => /\ ReportKept(a)
                 /\ \E x \in files : x.root = stamps[a] /\ x.sub = "data" /\ x.by = a
                 /\ \E x \in files : x.root = stamps[a] /\ x.sub = "fig" /\ x.by = a
    /\ \A a, b \in 1..Len(stamps) :
          (a < b /\ stamps[a] = stamps[b] /\ Cleaned(b))
              => ~\E x \in files : x.root = stamps[a] /\ x.sub \in {"data", "fig"} /\ x.by = a

C19_Witness ==
    /\ Len(stamps) = 2 /\ stamps[1] # stamps[2] /\ exits = <<0, 0>>
    /\ ReportKept(1) /\ ReportKept(2)

(* ------------------------------- C20 ----------------------------------- *)

\* the files of src_dir that match the pattern
Matching == Glob(srcfiles, pattern)

\* the place of a matching file in ascending order of names, from 1
PlaceOf(n) == 1 + Cardinality({m \in Matching : StrLess(m, n)})

\* the matching file at a place
FileAt(q) == CHOOSE n \in Matching : PlaceOf(n) = q

\* the number of bytes in front of the matching file at place q
RECURSIVE OffsetOf(_)
OffsetOf(q) == IF q <= 1 THEN 0 ELSE OffsetOf(q - 1) + Len(srcfiles[FileAt(q - 1)])

\* C20: when concat_files has ended, the destination holds the bytes of
\* every matching file, each once and whole, in ascending order of file
\* names, and nothing else; with no matching file it exists and is empty.
C20_Concatenation ==
    cpc = "done" =>
        /\ dst.exists
        /\ Len(dst.lines) = OffsetOf(Cardinality(Matching) + 1)
        /\ \A n \in Matching :
              SubSeq(dst.lines, OffsetOf(PlaceOf(n)) + 1,
                     OffsetOf(PlaceOf(n)) + Len(srcfiles[n])) = srcfiles[n]

C20_Witness ==
    /\ cpc = "done" /\ pattern = "gkvp.dtc.*"
    /\ "gkvp.dtc.10" \in Matching /\ "gkvp.dtc.9" \in Matching
    /\ "gkvp.eng.001" \in DOMAIN srcfiles
    /\ srcfiles["gkvp.dtc.10"] = <<49, 10>> /\ srcfiles["gkvp.dtc.9"] = <<50, 32, 51, 10>>
    /\ dst.lines = <<49, 10, 50, 32, 51, 10>>

(* ------------------------------- C21 ----------------------------------- *)

\* the fragments of a report for nprocs ranks, as the claim lists them
ExpectedFragments ==
    <<"text_section", "plot_elt", "plot_mtr", "plot_mtf">>
    \o (IF params.calc_type = "lin_freq" THEN <<"plot_freq">> ELSE <<>>)
    \o <<"plot_time_series">>
    \o [r \in 1..params.nprocs |-> "plot_flux." \o Decimal(r - 1)]
    \o <<"plot_energy">>

\* the pages of the documents of a list, each document whole and in its own
\* order, as pairs <<document, page number>>
RECURSIVE PagesInOrder(_)
PagesInOrder(names) ==
    IF names = <<>> THEN <<>>
    ELSE [g \in 1..FragmentPages(Head(names), loginfo) |-> <<Head(names), g>>]
         \o PagesInOrder(Tail(names))

\* C21: when gkvfigpdf has returned, the list handed to merge_pdfs was
\* text_section, plot_elt, plot_mtr, plot_mtf, plot_freq (exactly when
\* calc_type is lin_freq), plot_time_series, plot_flux.0 .. plot_flux.(nprocs-1),
\* plot_energy, and the merged report holds the pages of these fragments in
\* that order.
C21_FragmentOrder ==
    Returned =>
        /\ pdfs = ExpectedFragments
        /\ [g \in 1..Len(merged) |-> <<merged[g].doc, merged[g].no>>]
              = PagesInOrder(ExpectedFragments)

C21_Witness ==
    /\ Returned /\ params = [nprocs |-> 2, calc_type |-> "lin_freq"]
    /\ loginfo.pages = 2
    /\ Len(merged) = 10
    /\ merged[1].doc = "text_section" /\ merged[2].doc = "text_section"
    /\ merged[6].doc = "plot_freq" /\ merged[9].doc = "plot_flux.1"

(* ------------------------------- C22 ----------------------------------- *)

\* the sum of the page counts of the input documents
RECURSIVE PageSum(_)
PageSum(docs) == IF docs = <<>> THEN 0 ELSE Len(Head(docs)) + PageSum(Tail(docs))

\* C22: when merge_pdfs has ended, total is the sum of the page counts of the
\* input documents, the output has that many pages, and its g-th page carries
\* the one label "g / total".
C22_PageNumbers ==
    mpc = "done" =>
        /\ total = PageSum(pdf_paths)
        /\ Len(out_pdf) = total
        /\ \A g \in 1..Len(out_pdf) :
              out_pdf[g].marks = <<Decimal(g) \o " / " \o Decimal(PageSum(pdf_paths))>>

C22_Witness ==
    /\ mpc = "done"
    /\ Len(pdf_paths) = 3
    /\ Len(pdf_paths[1]) = 2 /\ Len(pdf_paths[2]) = 0 /\ Len(pdf_paths[3]) = 1
    /\ out_pdf[3] = [doc |-> "3", no |-> 1, marks |-> <<"3 / 3">>]

(* ------------------------------- C23 ----------------------------------- *)

\* a run in lin_freq mode on inputs that are complete but for the dsp
\* diagnostic, which is absent or cannot be parsed
DspDegraded ==
    /\ argv /\ FirstMissing(tree) = "none"
    /\ loginfo.parse = "ok" /\ loginfo.long /\ loginfo.calc_type = "lin_freq"
    /\ missing \in {"dsp", Unparsable}

\* C23: in lin_freq mode without a usable dsp diagnostic nothing raises;
\* once plot_freq has run the warning is printed and its page is written,
\* and when gkvfigpdf returns the merged report holds that page.
C23_DspOptional ==
    DspDegraded =>
        /\ rexc = "none"
        /\ \A g \in 1..Len(pdfs) :
              pdfs[g] = "plot_freq" =>
                 /\ \E w \in 1..Len(printed) : printed[w] = "WARN"
                 /\ Filled(files, stamps[Len(stamps)], "fig", "plot_freq.pdf")
        /\ Returned =>
              /\ \E g \in 1..Len(pdfs) : pdfs[g] = "plot_freq"
              /\ \E g \in 1..Len(merged) : merged[g].doc = "plot_freq"
              /\ Filled(files, stamps[Len(stamps)], "", "fig_stdout.pdf")

C23_Witness ==
    /\ DspDegraded /\ missing = Unparsable /\ Returned
    /\ printed = <<"WARN", "generated">>
    /\ \E x \in files : x.name = "dsp.dat" /\ x.size = "garbled"
    /\ merged[5].doc = "plot_freq"

(* ------------------------------- C24 ----------------------------------- *)

\* the statement gkvfigpdf is about to run, among those of lines 189-255
AtStep == runpc = "steps" /\ stepno <= Len(Program(params))

\* root/sub/name was written by the running invocation
WrittenThisRun(sub, name) ==
    \E x \in files :
        x.root = stamps[Len(stamps)] /\ x.sub = sub /\ x.name = name /\ x.by = Invocation

BlnTable == read_csv(dst.lines)

\* C25: the table built by concatenating the gkvp.bln.0.* files has its rows
\* ordered by strictly increasing t.
C25_IncreasingTime ==
    (cpc = "done" /\ pattern = "gkvp.bln.0.*") =>
        \A d \in {BlnTable} :
            \A g \in 1..(Len(d) - 1) : d[g][1] < d[g + 1][1]

(* ------------------------------- C26 ----------------------------------- *)

\* C26: the three marker matches are independent: when parse_parameters has
\* ended, each marker whose regular expression matches some line of the log
\* has been extracted, whatever else that line holds.
C26_Independent ==
    ParseEnded =>
        /\ (\E l \in 1..Len(log) : NprocsGroup(log[l]) # "") => nprocs # NoneInt
        /\ (\E l \in 1..Len(log) : GlobalNyGroup(log[l]) # "") => global_ny # NoneInt
        /\ (\E l \in 1..Len(log) : CalcTypeGroup(log[l]) # "") => calc_type # NoneStr

(* ------------------------------- C29 ----------------------------------- *)

\* the last line of the log a marker's regular expression matches, 0 when
\* there is none
LastNprocsLine ==
    IF \E l \in 1..Len(log) : NprocsGroup(log[l]) # ""
    THEN CHOOSE l \in 1..Len(log) :
            /\ NprocsGroup(log[l]) # ""
            /\ \A q \in (l + 1)..Len(log) : NprocsGroup(log[q]) = ""
    ELSE 0

LastGlobalNyLine ==
    IF \E l \in 1..Len(log) : GlobalNyGroup(log[l]) # ""
    THEN CHOOSE l \in 1..Len(log) :
            /\ GlobalNyGroup(log[l]) # ""
            /\ \A q \in (l + 1)..Len(log) : GlobalNyGroup(log[q]) = ""
    ELSE 0

LastCalcTypeLine ==
    IF \E l \in 1..Len(log) : CalcTypeGroup(log[l]) # ""
    THEN CHOOSE l \in 1..Len(log) :
            /\ CalcTypeGroup(log[l]) # ""
            /\ \A q \in (l + 1)..Len(log) : CalcTypeGroup(log[q]) = ""
    ELSE 0

\* C29: when parse_parameters returns, each of the three values is the one
\* of the last line of the log that matches its marker.
C29_LastMatchWins ==
    ret = "returned" =>
        /\ LastNprocsLine # 0 /\ LastGlobalNyLine # 0 /\ LastCalcTypeLine # 0
        /\ nprocs = DigitsVal(NprocsGroup(log[LastNprocsLine]), 0)
        /\ global_ny = DigitsVal(GlobalNyGroup(log[LastGlobalNyLine]), 0)
        /\ calc_type = CalcTypeGroup(log[LastCalcTypeLine])

(* ------------------------------- C27 ----------------------------------- *)

\* clean_directory has ended
CleanEnded == clpc \in {"done", "raised"}

\* C27: clean_directory ends in one of three ways: the path was a directory,
\* and it is still there and empty; the path did not exist, and it is now a
\* directory, as are the parents that were missing; the path existed and was
\* not a directory, and ValueError is raised with the tree unchanged.
C27_ThreeEndings ==
    CleanEnded =>
        \/ /\ path_exists(fsys0, dir_path) /\ is_dir(fsys0, dir_path)
           /\ clpc = "done"
           /\ is_dir(fsys, dir_path)
           /\ iterdir(fsys, dir_path) = {}
        \/ /\ ~path_exists(fsys0, dir_path)
           /\ clpc = "done"
           /\ \A q \in Prefixes(dir_path) : q \in DOMAIN fsys /\ fsys[q] \in {"dir", "dirlink"}
           /\ \A q \in DOMAIN fsys0 : q \in DOMAIN fsys /\ fsys[q] = fsys0[q]
        \/ /\ path_exists(fsys0, dir_path) /\ ~is_dir(fsys0, dir_path)
           /\ clpc = "raised" /\ clexc = "ValueError"
           /\ fsys = fsys0

(* ------------------------------- C28 ----------------------------------- *)

\* the k-th derivative field of the line written for row r (0-based): the
\* field after the time field
DerivativeField(r, k) ==
    SubSeq(f.lines[r + 2], k * FieldWidth + 1, (k + 1) * FieldWidth)

NaNToken == RJust("NaN", FieldWidth)

\* C28 as stated: for every table, times repeated or decreasing included, a
\* derivative field is written as the token NaN exactly when the value of
\* that cell in memory is nan.
C28_TokenIffUndefined ==
    pc \in {"writing", "done"} =>
        \A r \in WrittenRows : \A k \in 1..Len(DerivativeNames) :
            DerivativeField(r, k) = NaNToken <=> IsNaN(At(D(k), r))

\* C28 (amended): for every numeric table, times repeated or decreasing
\* included, a derivative field is written as the token NaN exactly at the
\* rows i < 2 or i >= n-2, which are exactly the rows the estimators never
\* assign and which hold nan in memory; the field of every other row is the
\* number format of the value the stencil computed, whatever it is.
C28_TokenIffUnassigned ==
    pc \in {"writing", "done"} =>
        \A r \in WrittenRows : \A k \in 1..Len(DerivativeNames) :
            /\ DerivativeField(r, k) = NaNToken <=> IsSentinelRow(result, r)
            /\ IsSentinelRow(result, r) <=> r \notin InteriorRows(NRows(result))
            /\ IsSentinelRow(result, r) => IsNaN(At(D(k), r))
            /\ ~IsSentinelRow(result, r) =>
                   DerivativeField(r, k) = RJust(FmtE(At(D(k), r)), FieldWidth)

\* a finished file of a table with a repeated time, an interior cell that
\* is nan in memory and is written as the number nan, not as the token
C28_Witness ==
    /\ pc = "done"
    /\ \E r \in 1..(N - 1) : T[r + 1] = T[r]
    /\ \E r \in InteriorRows(N) : \E k \in 1..Len(DerivativeNames) :
           /\ IsNaN(At(D(k), r))
           /\ DerivativeField(r, k) = RJust("nan", FieldWidth)
           /\ DerivativeField(r, k) # NaNToken

(* ------------------------------- C30 ----------------------------------- *)

\* the labels of a table, in column order
Labels(d) == [c \in 1..Len(d) |-> d[c].name]

\* C30: no step of save_entropy_balance, _calc_entropy_balance included,
\* changes the table the caller passed: it keeps its column labels, its
\* number of columns and its values, whether the call goes on or raises.
C30_CallerTableKept ==
    [][ /\ Len(df') = Len(df)
        /\ Labels(df') = Labels(df)
        /\ \A c \in 1..Len(df) : df'[c].vals = df[c].vals ]_vars

\* the call has written its file from a 27-column table with the new
\* labels, and the caller's table has its 21 columns labelled 0 .. 20
C30_Witness ==
    /\ pc = "done"
    /\ NRows(df) >= 5
    /\ Len(result) = Len(ColumnNames) + Len(DerivativeNames)
    /\ Labels(result) # Labels(df)
    /\ Len(df) = Len(InputLabels)
    /\ Labels(df) = InputLabels

====
